---- MODULE Spec2Model ----
(***************************************************************************)
(* A model of the PingCy monitoring pipeline: per-target schedulers, the   *)
(* job queue, the Aggregator that owns the per-target State and publishes  *)
(* the Snapshot, the event queue, and the Incident Tracker with its store. *)
(* Durations are integer nanoseconds, as time.Duration is.                 *)
(***************************************************************************)
EXTENDS Integers, Sequences, FiniteSets, TLC

VARIABLES
    now,            \* the wall clock (time.Now), a logical counter
    cancelled,      \* ctx.Done() is closed
    dbConfigured,   \* db / dbpool != nil
    botConfigured,  \* tbot != nil
    resultsCh,      \* chan CheckResult
    eventsCh,       \* chan Event
    aggPc,          \* where the Aggregator loop stands: recv | send | done
    aggEvent,       \* the Event the Aggregator is sending (<<>> when none)
    state,          \* the Aggregator's map[string]*State
    snapshot,       \* snapshot.current
    checkResults,   \* table check_results, per target, in checked_at order
    incidents,      \* table incidents, in insertion order
    trk,            \* per store session: the Incident Tracker's position
    notified,       \* messages handed to the notification sink
    lastProc,       \* history: the result the Aggregator processed last
    procCount,      \* history: results processed per target
    procLastUp,     \* history: up-value of the result processed last per target
    lastOp,         \* history: the incident statement executed last
    storeOps,       \* events given to the store sessions directly
    targetCfg,      \* the scheduler's targets: Interval and Enabled
    jobsCh,         \* chan CheckJob
    schedPc,        \* per target: where its scheduler goroutine stands
    delay,          \* per target: the delay its timer was armed with
    lastEnq,        \* history: the enqueue attempt made last
    wk,             \* per worker goroutine: its position, job and result in hand
    got,            \* what snapshot.Get returned to a reader last
    hist,           \* history: counts of deliveries and the maps published
    closed,         \* the channels on which close() has been called
    workerCount     \* the workerCount StartWorkers was called with

vars == <<now, cancelled, dbConfigured, botConfigured, resultsCh, eventsCh,
          aggPc, aggEvent, state, snapshot, checkResults, incidents, trk,
          notified, lastProc, procCount, procLastUp, lastOp, storeOps,
          targetCfg, jobsCh, schedPc, delay, lastEnq, wk, got, hist,
          closed, workerCount>>

aggVars == <<resultsCh, aggPc, aggEvent, state, snapshot, checkResults,
             lastProc, procCount, procLastUp>>
trkVars == <<incidents, trk, notified, lastOp, storeOps>>
schedVars == <<targetCfg, jobsCh, schedPc, delay, lastEnq>>
poolVars == <<closed, workerCount>>
flowVars == <<wk, got, hist, poolVars>>

-----------------------------------------------------------------------------
(* Bounds of the model *)

\* results the workers deliver in one run
MaxResults == 2
\* capacity of the result queue in the model
ResultsCap == 1
\* capacity of the event queue in the model
EventsCap == 1
\* events handed straight to the store sessions
MaxStoreOps == 3
\* capacity of the job queue in the model
JobsCap == 1
\* timer expiries per run
MaxTicks == 3
\* checks a worker completes in the specification of CheckOnce
MaxChecks == 1
\* the largest workerCount StartWorkers is called with
MaxWorkers == 2

Targets == {"Alpha", "Beta"}

URLOf(t) == IF t = "Alpha" THEN "https://alpha.example" ELSE "https://beta.example"

\* SQL NULL in an integer column and in a text column
NullInt == -1
NullText == "<NULL>"

Millisecond == 1000000

-----------------------------------------------------------------------------
(* CheckResult values the workers deliver (the return statements of CheckOnce) *)

CheckResult(t, at, lat, up, code, err, val) ==
    [TargetName |-> t, URL |-> URLOf(t), At |-> at, Latency |-> lat, Up |-> up,
     StatusCode |-> code, Error |-> err, Validation |-> val, Attempt |-> 1]

\* passed all validations | transport error | status mismatch
ResultShapes(t, at) ==
    { CheckResult(t, at, 120500000, TRUE, 200, "", ""),
      CheckResult(t, at, 1500000000, FALSE, 0, "timeout", ""),
      CheckResult(t, at, 80250000, FALSE, 500, "",
                  "unexpected status: got 500 want 200") }

-----------------------------------------------------------------------------
(* The Aggregator *)

ZeroState ==
    [Name |-> "", URL |-> "", LastUp |-> FALSE, LastChecked |-> 0,
     LastLatency |-> 0, LastStatusCode |-> 0, LastError |-> "",
     ConsecutiveSuccess |-> 0, ConsecutiveFail |-> 0,
     TotalChecks |-> 0, TotalFails |-> 0]

\* strings.Contains(strings.ToLower(s), "timeout"), over the error texts in use
ContainsTimeout(s) == s \in {"timeout", "read body: timeout"}

\* errorsIsContextDeadline(errors.New(s))
errorsIsContextDeadline(s) ==
    s \in {"context deadline exceeded", "read body: context deadline exceeded"}

\* time.Duration.Milliseconds
Milliseconds(d) == d \div Millisecond

nullableString(parts) ==
    LET idx == {i \in 1..Len(parts) : parts[i] # ""}
    IN  IF idx = {} THEN NullText
        ELSE parts[CHOOSE i \in idx : \A j \in idx : i <= j]

StatusOfResult(res) ==
    IF res.Up THEN "UP"
    ELSE IF errorsIsContextDeadline(res.Error) \/ ContainsTimeout(res.Error)
         THEN "TIMEOUT"
         ELSE "DOWN"

\* the row persistCheckResult inserts
CheckRow(res, clock) ==
    [checked_at |-> IF res.At = 0 THEN clock ELSE res.At,
     status |-> StatusOfResult(res),
     status_code |-> res.StatusCode,
     latency_ms |-> Milliseconds(res.Latency),
     error |-> nullableString(<<res.Error, res.Validation>>)]

persistCheckResult(rows, res, clock, ok) ==
    IF ok THEN Append(rows, CheckRow(res, clock)) ELSE rows

updateStateSkipped(st, res, clock) == [st EXCEPT !.Name = res.TargetName]

updateStateAllFail(st, res, clock) ==
    [st EXCEPT !.LastChecked = clock, !.LastUp = res.Up, !.Name = res.TargetName,
               !.LastLatency = res.Latency, !.LastStatusCode = res.StatusCode,
               !.URL = res.URL, !.TotalChecks = @ + 1, !.TotalFails = @ + 1]

updateState(st, res, clock) ==
    LET base == [st EXCEPT !.LastChecked = clock,
                           !.LastUp = res.Up,
                           !.Name = res.TargetName,
                           !.LastLatency = res.Latency,
                           !.LastStatusCode = res.StatusCode,
                           !.URL = res.URL,
                           !.TotalChecks = @ + 1]
    IN  IF res.Up
        THEN [base EXCEPT !.ConsecutiveSuccess = @ + 1, !.ConsecutiveFail = 0]
        ELSE [base EXCEPT !.TotalFails = @ + 1,
                          !.ConsecutiveFail = @ + 1,
                          !.LastError = res.Error]

\* rows in ORDER BY checked_at DESC
Newest(rows) == [i \in 1..Len(rows) |-> rows[Len(rows) + 1 - i]]

StreakLimit == 100

\* the loop over the LIMIT 100 rows: the leading run equal to the first status
RECURSIVE StreakFrom(_, _, _)
StreakFrom(desc, i, firstStatus) ==
    IF i > Len(desc) \/ i > StreakLimit THEN 0
    ELSE IF desc[i].status # firstStatus THEN 0
    ELSE 1 + StreakFrom(desc, i + 1, firstStatus)

\* loadStateFromDB: <<>> is nil; q1, q2, q3 tell whether each query succeeded
loadStateFromDB(rows, target, q1, q2, q3) ==
    IF ~q1 \/ rows = <<>> THEN <<>>
    ELSE
    LET desc == Newest(rows)
        r == desc[1]
        lastUp == r.status = "UP"
        streak == StreakFrom(desc, 1, r.status)
        st0 == [ZeroState EXCEPT
                  !.Name = target,
                  !.LastChecked = r.checked_at,
                  !.LastUp = lastUp,
                  !.LastLatency = r.latency_ms * Millisecond,
                  !.LastStatusCode = r.status_code,
                  !.LastError = IF r.error = NullText THEN "" ELSE r.error]
        st1 == IF q2
               THEN [st0 EXCEPT
                       !.TotalChecks = Len(rows),
                       !.TotalFails =
                           Cardinality({i \in 1..Len(rows) : rows[i].status # "UP"})]
               ELSE st0
        st2 == IF ~q3 THEN st1
               ELSE IF lastUp
               THEN [st1 EXCEPT !.ConsecutiveSuccess = streak, !.ConsecutiveFail = 0]
               ELSE [st1 EXCEPT !.ConsecutiveFail = streak, !.ConsecutiveSuccess = 0]
    IN  <<st2>>

\* the state the Aggregator works on for res: the map's entry, or a hydrated
\* or fresh one on the first encounter
LocateState(states, rows, res, q1, q2, q3) ==
    IF res.TargetName \in DOMAIN states THEN states[res.TargetName]
    ELSE LET loaded == loadStateFromDB(rows, res.TargetName, q1, q2, q3)
         IN  IF loaded = <<>>
             THEN [ZeroState EXCEPT !.Name = res.TargetName, !.URL = res.URL]
             ELSE loaded[1]

ShouldEmitLate(st, prevUp, res) == st.TotalChecks > 2 /\ prevUp # res.Up

\* st is the state after updateState
ShouldEmit(st, prevUp, res) == st.TotalChecks > 1 /\ prevUp # res.Up

MakeEvent(res, prevUp) ==
    [TargetName |-> res.TargetName, URL |-> res.URL, From |-> prevUp,
     To |-> res.Up, At |-> res.At, Reason |-> res.Error,
     StatusCode |-> res.StatusCode]

StateDTOUnnamed(st) ==
    [Name |-> "", URL |-> st.URL, Up |-> st.LastUp,
     LastChecked |-> st.LastChecked,
     LatencyMs |-> Milliseconds(st.LastLatency),
     StatusCode |-> st.LastStatusCode, LastError |-> st.LastError,
     ConsecutiveSuccess |-> st.ConsecutiveSuccess,
     ConsecutiveFail |-> st.ConsecutiveFail,
     TotalChecks |-> st.TotalChecks, TotalFails |-> st.TotalFails]

StateDTO(st) ==
    [Name |-> st.Name, URL |-> st.URL, Up |-> st.LastUp,
     LastChecked |-> st.LastChecked,
     LatencyMs |-> Milliseconds(st.LastLatency),
     StatusCode |-> st.LastStatusCode, LastError |-> st.LastError,
     ConsecutiveSuccess |-> st.ConsecutiveSuccess,
     ConsecutiveFail |-> st.ConsecutiveFail,
     TotalChecks |-> st.TotalChecks, TotalFails |-> st.TotalFails]

\* the orders in which range may walk the map
Orders(S) ==
    {o \in [1..Cardinality(S) -> S] : \A i, j \in DOMAIN o : i # j => o[i] # o[j]}

buildSnapshot(states, order) ==
    LET all == [i \in 1..Len(order) |-> StateDTO(states[order[i]])]
        names == {all[i].Name : i \in DOMAIN all}
    IN  [All |-> all,
         ByName |-> [n \in names |->
             all[CHOOSE i \in DOMAIN all :
                   /\ all[i].Name = n
                   /\ \A j \in DOMAIN all : all[j].Name = n => j <= i]]]

EmptySnapshot == [All |-> <<>>, ByName |-> <<>>]

PutAlone(f, k, v) == [x \in {k} |-> v]

\* state[res.TargetName] = st
Put(f, k, v) == [x \in DOMAIN f \cup {k} |-> IF x = k THEN v ELSE f[x]]

NoProc == [target |-> "", n |-> 0, up |-> FALSE, prevUp |-> FALSE, fresh |-> FALSE,
           hydrated |-> FALSE, storeOk |-> FALSE, emitted |-> FALSE, event |-> <<>>, sent |-> FALSE,
           published |-> FALSE]

\* the workers deliver a result (resultsCh <- result)
Produce ==
    /\ now < MaxResults
    /\ Len(resultsCh) < ResultsCap
    /\ \E t \in Targets : \E res \in ResultShapes(t, now + 1) :
          resultsCh' = Append(resultsCh, res)
    /\ now' = now + 1
    /\ UNCHANGED <<cancelled, dbConfigured, botConfigured, eventsCh, aggPc,
                   aggEvent, state, snapshot, checkResults, lastProc, procCount,
                   procLastUp>>
    /\ UNCHANGED <<trkVars, schedVars>>

\* case res, ok := <-resCh, up to the send of the event or the publication
AggRecv ==
    /\ aggPc = "recv"
    /\ resultsCh # <<>>
    /\ LET res == Head(resultsCh)
           t == res.TargetName
       IN \E pok, q1, q2, q3 \in BOOLEAN :
          /\ dbConfigured \/ (~pok /\ ~q1 /\ ~q2 /\ ~q3)
          /\ (t \in DOMAIN state) => (~q1 /\ ~q2 /\ ~q3)
          /\ q1 \/ (~q2 /\ ~q3)
          /\ LET rows == persistCheckResult(checkResults[t], res, now, pok)
                 st == LocateState(state, rows, res, q1, q2, q3)
                 prevUp == st.LastUp
                 st2 == updateState(st, res, now)
                 emit == ShouldEmit(st2, prevUp, res)
                 states2 == Put(state, t, st2)
                 proc == [target |-> t, n |-> procCount[t] + 1, up |-> res.Up,
                          prevUp |-> procLastUp[t],
                          fresh |-> checkResults[t] = <<>>,
                          hydrated |-> /\ t \notin DOMAIN state
                                       /\ loadStateFromDB(rows, t, q1, q2, q3) # <<>>,
                          storeOk |-> pok /\ (t \in DOMAIN state \/ (q1 /\ q2 /\ q3)),
                          emitted |-> emit,
                          event |-> IF emit THEN <<MakeEvent(res, prevUp)>> ELSE <<>>,
                          sent |-> FALSE,
                          published |-> ~emit]
             IN /\ checkResults' = [checkResults EXCEPT ![t] = rows]
                /\ state' = states2
                /\ procCount' = [procCount EXCEPT ![t] = @ + 1]
                /\ procLastUp' = [procLastUp EXCEPT ![t] = res.Up]
                /\ lastProc' = proc
                /\ IF emit
                   THEN /\ aggPc' = "send"
                        /\ aggEvent' = <<MakeEvent(res, prevUp)>>
                        /\ snapshot' = snapshot
                   ELSE /\ aggPc' = "recv"
                        /\ aggEvent' = <<>>
                        /\ \E order \in Orders(DOMAIN states2) :
                              snapshot' = buildSnapshot(states2, order)
    /\ resultsCh' = Tail(resultsCh)
    /\ UNCHANGED <<now, cancelled, dbConfigured, botConfigured, eventsCh>>
    /\ UNCHANGED <<trkVars, schedVars>>

AggSendLossy ==
    /\ aggPc = "send"
    /\ eventsCh' = IF Len(eventsCh) < EventsCap THEN Append(eventsCh, aggEvent[1])
                   ELSE eventsCh
    /\ aggEvent' = <<>>
    /\ aggPc' = "recv"
    /\ lastProc' = [lastProc EXCEPT !.sent = TRUE, !.published = TRUE]
    /\ \E order \in Orders(DOMAIN state) : snapshot' = buildSnapshot(state, order)
    /\ UNCHANGED <<now, cancelled, dbConfigured, botConfigured, resultsCh, state,
                   checkResults, procCount, procLastUp>>
    /\ UNCHANGED <<trkVars, schedVars>>

\* case eventsCh <- event, then snapshot.Publish
AggSend ==
    /\ aggPc = "send"
    /\ Len(eventsCh) < EventsCap
    /\ eventsCh' = Append(eventsCh, aggEvent[1])
    /\ aggEvent' = <<>>
    /\ aggPc' = "recv"
    /\ lastProc' = [lastProc EXCEPT !.sent = TRUE, !.published = TRUE]
    /\ \E order \in Orders(DOMAIN state) : snapshot' = buildSnapshot(state, order)
    /\ UNCHANGED <<now, cancelled, dbConfigured, botConfigured, resultsCh, state,
                   checkResults, procCount, procLastUp>>
    /\ UNCHANGED <<trkVars, schedVars>>

\* case <-ctx.Done() of the inner select: the event is abandoned
AggSendCancelled ==
    /\ aggPc = "send"
    /\ cancelled
    /\ aggEvent' = <<>>
    /\ aggPc' = "recv"
    /\ lastProc' = [lastProc EXCEPT !.published = TRUE]
    /\ \E order \in Orders(DOMAIN state) : snapshot' = buildSnapshot(state, order)
    /\ UNCHANGED <<now, cancelled, dbConfigured, botConfigured, resultsCh, eventsCh,
                   state, checkResults, procCount, procLastUp>>
    /\ UNCHANGED <<trkVars, schedVars>>

\* case <-ctx.Done() of the outer select
AggDone ==
    /\ aggPc = "recv"
    /\ cancelled
    /\ aggPc' = "done"
    /\ UNCHANGED <<now, cancelled, dbConfigured, botConfigured, resultsCh, eventsCh,
                   aggEvent, state, snapshot, checkResults, lastProc, procCount,
                   procLastUp>>
    /\ UNCHANGED <<trkVars, schedVars>>

\* the root context is cancelled
Cancel ==
    /\ ~cancelled
    /\ cancelled' = TRUE
    /\ UNCHANGED <<now, dbConfigured, botConfigured, eventsCh>>
    /\ UNCHANGED <<aggVars, trkVars, schedVars>>

-----------------------------------------------------------------------------
(* The incidents table and the Incident Tracker *)

\* store sessions: the tracker of this process and one of a second instance
Sessions == {1, 2}

Probe == "primary"

NullIfZero(n) == IF n = 0 THEN NullInt ELSE n

NullIfEmpty(s) == IF s = "" THEN NullText ELSE s

statusFromEvent(ev) == IF ev.To THEN "UP" ELSE "DOWN"

\* rows with ended_at IS NULL for (target_name, probe)
OpenFor(rows, t, p) ==
    {i \in DOMAIN rows : /\ rows[i].target_name = t
                         /\ rows[i].probe = p
                         /\ rows[i].ended_at = NullInt}

IncidentRow(ev, clock) ==
    [target_name |-> ev.TargetName, probe |-> Probe,
     started_at |-> ev.At, ended_at |-> NullInt,
     start_status |-> statusFromEvent(ev),
     start_status_code |-> NullIfZero(ev.StatusCode),
     start_error |-> NullIfEmpty(ev.Reason),
     end_status |-> NullText, end_status_code |-> NullInt,
     end_error |-> NullText, created_at |-> clock, updated_at |-> clock]

UniqueActiveOff(rows, row) == TRUE

\* the unique index uq_incidents_one_active admits row
UniqueActiveOk(rows, row) ==
    row.ended_at # NullInt \/ OpenFor(rows, row.target_name, row.probe) = {}

InsertAlways(rows, ev, sawOpen, clock) ==
    [rows |-> Append(rows, IncidentRow(ev, clock)), kind |-> "inserted"]

\* INSERT ... SELECT ... WHERE NOT EXISTS (...): sawOpen is what the subquery
\* found under the statement's snapshot; the index is checked on the insert
InsertIncident(rows, ev, sawOpen, clock) ==
    IF sawOpen THEN [rows |-> rows, kind |-> "skipped"]
    ELSE IF UniqueActiveOk(rows, IncidentRow(ev, clock))
         THEN [rows |-> Append(rows, IncidentRow(ev, clock)), kind |-> "inserted"]
         ELSE [rows |-> rows, kind |-> "conflict"]

CloseAll(rows, ev, clock) ==
    [i \in DOMAIN rows |->
        IF rows[i].target_name = ev.TargetName /\ rows[i].probe = Probe
        THEN [rows[i] EXCEPT !.ended_at = ev.At,
                             !.end_status = "UP",
                             !.end_status_code = NullIfZero(ev.StatusCode),
                             !.end_error = NullIfEmpty(ev.Reason),
                             !.updated_at = clock]
        ELSE rows[i]]

CloseKeepOpen(rows, ev, clock) ==
    [i \in DOMAIN rows |->
        IF i \in OpenFor(rows, ev.TargetName, Probe)
        THEN [rows[i] EXCEPT !.end_status = "UP",
                             !.end_status_code = NullIfZero(ev.StatusCode),
                             !.end_error = NullIfEmpty(ev.Reason),
                             !.updated_at = clock]
        ELSE rows[i]]

\* UPDATE incidents SET ... WHERE target_name = $4 AND probe = $5 AND ended_at IS NULL
CloseIncident(rows, ev, clock) ==
    [i \in DOMAIN rows |->
        IF i \in OpenFor(rows, ev.TargetName, Probe)
        THEN [rows[i] EXCEPT !.ended_at = ev.At,
                             !.end_status = "UP",
                             !.end_status_code = NullIfZero(ev.StatusCode),
                             !.end_error = NullIfEmpty(ev.Reason),
                             !.updated_at = clock]
        ELSE rows[i]]

\* persistIncident run with no other session in between
persistIncident(rows, ev, clock) ==
    IF ~ev.To
    THEN InsertIncident(rows, ev, OpenFor(rows, ev.TargetName, Probe) # {}, clock).rows
    ELSE CloseIncident(rows, ev, clock)

formatTelegramDownMessage(ev) ==
    LET head == IF ev.StatusCode = 0 /\ ev.Reason # "" THEN <<"TIMEOUT", ev.Reason>>
                ELSE IF ev.StatusCode = 0 THEN <<"TIMEOUT">>
                ELSE IF ev.StatusCode >= 500 THEN <<"HTTP", ev.StatusCode, "server error">>
                ELSE <<"HTTP", ev.StatusCode>>
        tail == IF ev.Reason # "" /\ ev.StatusCode # 0 THEN <<ev.Reason>> ELSE <<>>
    IN  [kind |-> "DOWN", target |-> ev.TargetName, status |-> <<head, tail>>, at |-> ev.At]

formatTelegramUpMessage(ev) ==
    LET line == IF ev.StatusCode = 0 THEN <<"UP">>
                ELSE IF ev.Reason # "" THEN <<"HTTP", ev.StatusCode, ev.Reason>>
                ELSE <<"HTTP", ev.StatusCode>>
    IN  [kind |-> "UP", target |-> ev.TargetName, status |-> <<line, <<>>>>, at |-> ev.At]

IdleTrk == [pc |-> "idle", ev |-> <<>>, sawOpen |-> FALSE]

NoOp == [session |-> 0, ev |-> <<>>, kind |-> "none", sawOpen |-> FALSE,
         openBefore |-> FALSE, before |-> <<>>, after |-> <<>>]

AfterPersist == IF botConfigured THEN "notify" ELSE "idle"

Op(s, ev, kind, sawOpen, before, after) ==
    [session |-> s, ev |-> <<ev>>, kind |-> kind, sawOpen |-> sawOpen,
     openBefore |-> OpenFor(before, ev.TargetName, Probe) # {},
     before |-> before, after |-> after]

TrkRecvEager(s) ==
    /\ s = 1
    /\ eventsCh # <<>>
    /\ eventsCh' = Tail(eventsCh)
    /\ trk' = [trk EXCEPT ![s] = IF dbConfigured
                                  THEN [pc |-> "persist", ev |-> <<Head(eventsCh)>>,
                                        sawOpen |-> FALSE]
                                  ELSE IdleTrk]
    /\ UNCHANGED <<now, cancelled, dbConfigured, botConfigured, incidents,
                   notified, lastOp, storeOps>>
    /\ UNCHANGED <<aggVars, schedVars>>

\* for e := range eventsCh, and the dbpool == nil test
TrkRecv(s) ==
    /\ s = 1
    /\ trk[s].pc = "idle"
    /\ eventsCh # <<>>
    /\ eventsCh' = Tail(eventsCh)
    /\ trk' = [trk EXCEPT ![s] = IF dbConfigured
                                  THEN [pc |-> "persist", ev |-> <<Head(eventsCh)>>,
                                        sawOpen |-> FALSE]
                                  ELSE IdleTrk]
    /\ UNCHANGED <<now, cancelled, dbConfigured, botConfigured, incidents,
                   notified, lastOp, storeOps>>
    /\ UNCHANGED <<aggVars, schedVars>>

\* a transition event reaches a store session from its own event queue
StoreBegin(s) ==
    /\ dbConfigured
    /\ trk[s].pc = "idle"
    /\ storeOps < MaxStoreOps
    /\ \E t \in Targets, to \in BOOLEAN, down \in {<<0, "timeout">>, <<500, "">>} :
          LET ev == [TargetName |-> t, URL |-> URLOf(t), From |-> ~to, To |-> to,
                     At |-> now + 1,
                     Reason |-> IF to THEN "" ELSE down[2],
                     StatusCode |-> IF to THEN 200 ELSE down[1]]
          IN  /\ to => down = <<500, "">>
              /\ trk' = [trk EXCEPT ![s] = [pc |-> "persist", ev |-> <<ev>>,
                                            sawOpen |-> FALSE]]
    /\ storeOps' = storeOps + 1
    /\ now' = now + 1
    /\ UNCHANGED <<cancelled, dbConfigured, botConfigured, eventsCh, incidents,
                   notified, lastOp>>
    /\ UNCHANGED <<aggVars, schedVars>>

TrkExecFailRetry(s) ==
    /\ trk[s].pc = "persist"
    /\ lastOp' = Op(s, trk[s].ev[1], "failed", FALSE, incidents, incidents)
    /\ trk' = trk
    /\ UNCHANGED <<now, cancelled, dbConfigured, botConfigured, eventsCh, incidents,
                   notified, storeOps>>
    /\ UNCHANGED <<aggVars, schedVars>>

\* db.Exec returns an error before the statement has any effect
TrkExecFail(s) ==
    /\ trk[s].pc = "persist"
    /\ lastOp' = Op(s, trk[s].ev[1], "failed", FALSE, incidents, incidents)
    /\ trk' = [trk EXCEPT ![s] = [pc |-> AfterPersist, ev |-> IF botConfigured THEN trk[s].ev ELSE <<>>,
                                  sawOpen |-> FALSE]]
    /\ UNCHANGED <<now, cancelled, dbConfigured, botConfigured, eventsCh, incidents,
                   notified, storeOps>>
    /\ UNCHANGED <<aggVars, schedVars>>

\* the down statement evaluates its NOT EXISTS subquery
TrkCheck(s) ==
    /\ trk[s].pc = "persist"
    /\ ~trk[s].ev[1].To
    /\ trk' = [trk EXCEPT ![s].pc = "insert",
                          ![s].sawOpen =
                              OpenFor(incidents, trk[s].ev[1].TargetName, Probe) # {}]
    /\ UNCHANGED <<now, cancelled, dbConfigured, botConfigured, eventsCh, incidents,
                   notified, lastOp, storeOps>>
    /\ UNCHANGED <<aggVars, schedVars>>

\* the down statement inserts what its SELECT produced
TrkInsert(s) ==
    /\ trk[s].pc = "insert"
    /\ LET ev == trk[s].ev[1]
           r == InsertIncident(incidents, ev, trk[s].sawOpen, now)
       IN  /\ incidents' = r.rows
           /\ lastOp' = Op(s, ev, r.kind, trk[s].sawOpen, incidents, r.rows)
    /\ trk' = [trk EXCEPT ![s] = [pc |-> AfterPersist, ev |-> IF botConfigured THEN trk[s].ev ELSE <<>>,
                                  sawOpen |-> FALSE]]
    /\ UNCHANGED <<now, cancelled, dbConfigured, botConfigured, eventsCh,
                   notified, storeOps>>
    /\ UNCHANGED <<aggVars, schedVars>>

\* the up statement
TrkClose(s) ==
    /\ trk[s].pc = "persist"
    /\ trk[s].ev[1].To
    /\ LET ev == trk[s].ev[1]
           after == CloseIncident(incidents, ev, now)
       IN  /\ incidents' = after
           /\ lastOp' = Op(s, ev, "closed", FALSE, incidents, after)
    /\ trk' = [trk EXCEPT ![s] = [pc |-> AfterPersist, ev |-> IF botConfigured THEN trk[s].ev ELSE <<>>,
                                  sawOpen |-> FALSE]]
    /\ UNCHANGED <<now, cancelled, dbConfigured, botConfigured, eventsCh,
                   notified, storeOps>>
    /\ UNCHANGED <<aggVars, schedVars>>

\* tbot.SendMessage; ok tells whether it returned no error
TrkNotify(s) ==
    /\ trk[s].pc = "notify"
    /\ \E ok \in BOOLEAN :
          LET ev == trk[s].ev[1]
              msg == IF ~ev.To THEN formatTelegramDownMessage(ev)
                     ELSE formatTelegramUpMessage(ev)
          IN  notified' = Append(notified, [msg |-> msg, ok |-> ok])
    /\ trk' = [trk EXCEPT ![s] = IdleTrk]
    /\ UNCHANGED <<now, cancelled, dbConfigured, botConfigured, eventsCh, incidents,
                   lastOp, storeOps>>
    /\ UNCHANGED <<aggVars, schedVars>>

-----------------------------------------------------------------------------
(* The schedulers *)

\* intervals the targets are configured with, in nanoseconds
Intervals == {7, 500000, 833334, 1000000, 300000000}

\* draws of rand.Int63n(n) the model follows when n is large
DrawSample == 5

\* time.Duration(float64(interval) * jitterFraction): jitterFraction is 0.2, and
\* the product truncates to a fifth of interval for every interval below 2^53
MaxJitter(interval) == interval \div 5

\* values rand.Int63n(n) may return
Int63n(n) ==
    IF n <= DrawSample THEN 0..(n - 1)
    ELSE {0, 1, n \div 2, n - 2, n - 1}

jitteredIntervalNoFloor(interval, r) ==
    interval + (r - MaxJitter(interval))

\* r is the value rand.Int63n(int64(maxJitter)*2+1) returned
jitteredInterval(interval, r) ==
    IF interval <= 0 THEN Millisecond
    ELSE LET maxJitter == MaxJitter(interval)
             jitter == r - maxJitter
             d == interval + jitter
         IN  IF d < Millisecond THEN Millisecond ELSE d

CheckJob(t, at) == [Target |-> t, ScheduledAt |-> at, Attempt |-> 1]

StartPcAll(cfg) == "first"

\* if !tt.Enabled { continue }: a goroutine is started for an enabled target only
StartPc(cfg) == IF cfg.Enabled THEN "first" ELSE "off"

enqueueJobBlocking(q, job, done) ==
    {[q |-> Append(q, job), outcome |-> "sent"] : x \in {1}}

\* the select of enqueueJob: every way it may return, with the queue it leaves.
\* default is taken only when neither the send nor ctx.Done() is ready
enqueueJob(q, job, done) ==
    {[q |-> Append(q, job), outcome |-> "sent"] : x \in {y \in {1} : Len(q) < JobsCap}}
    \cup {[q |-> q, outcome |-> "cancelled"] : x \in {y \in {1} : done}}
    \cup {[q |-> q, outcome |-> "dropped"] :
             x \in {y \in {1} : Len(q) >= JobsCap /\ ~done}}

NoEnq == [target |-> "", n |-> 0, full |-> FALSE, outcome |-> "none",
          before |-> <<>>, after |-> <<>>]

EnqueueUnlessFull(t, at) ==
    /\ IF Len(jobsCh) >= JobsCap
       THEN jobsCh' = jobsCh /\ lastEnq' = lastEnq
       ELSE /\ jobsCh' = Append(jobsCh, CheckJob(t, at))
            /\ lastEnq' = [target |-> t, n |-> lastEnq.n + 1, full |-> FALSE,
                           outcome |-> "sent", before |-> jobsCh,
                           after |-> Append(jobsCh, CheckJob(t, at))]
    /\ delay' = [delay EXCEPT ![t] = Millisecond]
    /\ schedPc' = [schedPc EXCEPT ![t] = "wait"]

\* enqueueJob, then the timer of the next round is armed
Enqueue(t, at) ==
    /\ \E r \in enqueueJob(jobsCh, CheckJob(t, at), cancelled) :
          /\ jobsCh' = r.q
          /\ lastEnq' = [target |-> t, n |-> lastEnq.n + 1,
                         full |-> Len(jobsCh) >= JobsCap, outcome |-> r.outcome,
                         before |-> jobsCh, after |-> r.q]
    /\ \E r \in Int63n(MaxJitter(targetCfg[t].Interval) * 2 + 1) :
          delay' = [delay EXCEPT ![t] = jitteredInterval(targetCfg[t].Interval, r)]
    /\ schedPc' = [schedPc EXCEPT ![t] = "wait"]

\* the immediate first check
SchedFirst(t) ==
    /\ schedPc[t] = "first"
    /\ Enqueue(t, now)
    /\ UNCHANGED <<now, cancelled, dbConfigured, botConfigured, eventsCh, targetCfg>>
    /\ UNCHANGED <<aggVars, trkVars>>

\* case <-timer.C
SchedFire(t) ==
    /\ schedPc[t] = "wait"
    /\ now < MaxTicks
    /\ now' = now + 1
    /\ Enqueue(t, now + 1)
    /\ UNCHANGED <<cancelled, dbConfigured, botConfigured, eventsCh, targetCfg>>
    /\ UNCHANGED <<aggVars, trkVars>>

\* case <-ctx.Done() of the scheduler's select
SchedStop(t) ==
    /\ schedPc[t] = "wait"
    /\ cancelled
    /\ schedPc' = [schedPc EXCEPT ![t] = "done"]
    /\ UNCHANGED <<now, cancelled, dbConfigured, botConfigured, eventsCh,
                   targetCfg, jobsCh, delay, lastEnq>>
    /\ UNCHANGED <<aggVars, trkVars>>

\* a worker receives a job (job, ok := <-jobsCh)
WorkerTake ==
    /\ jobsCh # <<>>
    /\ jobsCh' = Tail(jobsCh)
    /\ UNCHANGED <<now, cancelled, dbConfigured, botConfigured, eventsCh,
                   targetCfg, schedPc, delay, lastEnq>>
    /\ UNCHANGED <<aggVars, trkVars>>

-----------------------------------------------------------------------------
(* CheckOnce and the workers *)

\* strings that CheckOnce searches are sequences of one-character strings
Methods == {"GET", "HEAD", "head"}

ExpectedStatuses == {0, 200}

Keywords == {<<>>, <<" ">>, <<"O", "K">>, <<" ", "O", "K">>}

BodyLimits == {-1, 0, 1, 2}

\* the targets CheckOnce may be handed
CheckConfigs ==
    [Method : Methods, ExpectedStatus : ExpectedStatuses, Contains : Keywords,
     MaxBodyBytes : BodyLimits]

\* the target the pipeline specifications check: GET, expect 200, no keyword
PlainConfig ==
    [Method |-> "GET", ExpectedStatus |-> 200, Contains |-> <<>>, MaxBodyBytes |-> 0]

Statuses == {199, 200, 399, 400, 500}

Bodies == {<<>>, <<"O", "K">>, <<"x", "O", "K">>, <<"O", "x", "K">>}

\* what io.ReadAll of a response body may fail with: the connection breaks, or
\* the deadline of the job's context expires during the read
ReadErrors == {"unexpected EOF", "context deadline exceeded"}

\* what the network does to one probe: the request cannot be built, client.Do
\* fails with err, or a response arrives with a status and a body whose read
\* fails with err when readErr
Outcomes ==
    {[kind |-> "build", err |-> "invalid method", status |-> 0, body |-> <<>>,
      readErr |-> FALSE]}
    \cup {[kind |-> "do", err |-> e, status |-> 0, body |-> <<>>, readErr |-> FALSE] :
            e \in {"context deadline exceeded", "context canceled", "connection refused"}}
    \cup [kind : {"resp"}, err : {""}, status : Statuses, body : Bodies,
          readErr : {FALSE}]
    \cup [kind : {"resp"}, err : ReadErrors, status : Statuses, body : Bodies,
          readErr : {TRUE}]

\* the outcomes of the pipeline specifications: 200, 500, a timeout, a cancellation
PlainOutcomes ==
    {o \in Outcomes : \/ o.kind = "do" /\ o.err # "connection refused"
                      \/ o.kind = "resp" /\ o.status \in {200, 500}
                                         /\ o.body = <<>> /\ ~o.readErr}

ToUpper(m) == IF m = "head" THEN "HEAD" ELSE IF m = "get" THEN "GET" ELSE m

TrimSpace(s) ==
    LET idx == {i \in 1..Len(s) : s[i] # " "}
    IN  IF idx = {} THEN <<>>
        ELSE SubSeq(s, CHOOSE i \in idx : \A j \in idx : i <= j,
                       CHOOSE i \in idx : \A j \in idx : j <= i)

\* strings.Contains
StringsContains(h, n) ==
    \E i \in 0..(Len(h) - Len(n)) : SubSeq(h, i + 1, i + Len(n)) = n

DefaultMaxBodyBytes == 65536

\* io.ReadAll(io.LimitReader(body, n))
LimitRead(body, n) == SubSeq(body, 1, IF n < Len(body) THEN n ELSE Len(body))

errorsIsContextCanceled(s) == s \in {"context canceled"}

classifyHTTPError(err) ==
    IF errorsIsContextDeadline(err) THEN "timeout"
    ELSE IF errorsIsContextCanceled(err) THEN "canceled"
    ELSE err

\* fmt.Sprintf("unexpected status: got %d want %d", code, want), over the values in use
UnexpectedStatus(code, want) ==
    CASE code = 199 /\ want = 200 -> "unexpected status: got 199 want 200"
      [] code = 399 /\ want = 200 -> "unexpected status: got 399 want 200"
      [] code = 400 /\ want = 200 -> "unexpected status: got 400 want 200"
      [] code = 500 /\ want = 200 -> "unexpected status: got 500 want 200"

\* fmt.Sprintf("bad status: %d", code), over the values in use
BadStatus(code) ==
    CASE code = 199 -> "bad status: 199"
      [] code = 400 -> "bad status: 400"
      [] code = 500 -> "bad status: 500"

\* fmt.Sprintf("keyword missing: %q", contains), over the values in use
KeywordMissing(contains) ==
    CASE contains = <<"O", "K">> -> "keyword missing: \"OK\""

StatusValidationExactOnly(cfg, status) ==
    IF cfg.ExpectedStatus # 0 /\ status # cfg.ExpectedStatus
    THEN UnexpectedStatus(status, cfg.ExpectedStatus)
    ELSE ""

\* 1) status code validation: the message, or "" when the status passes
StatusValidation(cfg, status) ==
    IF cfg.ExpectedStatus # 0 /\ status # cfg.ExpectedStatus
    THEN UnexpectedStatus(status, cfg.ExpectedStatus)
    ELSE IF cfg.ExpectedStatus = 0 /\ (status < 200 \/ status >= 400)
    THEN BadStatus(status)
    ELSE ""

\* fmt.Sprintf("read body: %v", readErr), over the values in use
ReadBodyError(err) ==
    CASE err = "unexpected EOF" -> "read body: unexpected EOF"
      [] err = "context deadline exceeded" -> "read body: context deadline exceeded"

ReadFailureAsValidation(r, err) ==
    [r EXCEPT !.Up = FALSE, !.Error = err, !.Validation = err]

\* if readErr != nil
ReadFailure(r, err) == [r EXCEPT !.Up = FALSE, !.Error = err]

\* 2) keyword validation and the final return, on a response whose status passed
KeywordValidation(r, cfg, o) ==
    LET contains == TrimSpace(cfg.Contains)
        maxBytes == IF cfg.MaxBodyBytes <= 0 THEN DefaultMaxBodyBytes
                    ELSE cfg.MaxBodyBytes
        passed == [r EXCEPT !.Up = TRUE, !.Error = "", !.Validation = ""]
    IN  IF contains = <<>> THEN passed
        ELSE IF ToUpper(cfg.Method) = "HEAD"
        THEN [r EXCEPT !.Up = FALSE,
                       !.Validation =
                           "contains check configured but method is HEAD (no body)"]
        ELSE IF o.readErr THEN ReadFailure(r, ReadBodyError(o.err))
        ELSE IF ~StringsContains(LimitRead(o.body, maxBytes), contains)
        THEN [r EXCEPT !.Up = FALSE, !.Validation = KeywordMissing(contains)]
        ELSE passed

\* one HTTP check of target name, configured as cfg, when the network does o
CheckOnce(name, cfg, o, at) ==
    LET res == CheckResult(name, at, 0, FALSE, 0, "", "")
    IN  IF o.kind = "build"
        THEN [res EXCEPT !.Error = "build request: invalid method", !.Latency = 2000000]
        ELSE IF o.kind = "do"
        THEN [res EXCEPT !.Error = classifyHTTPError(o.err), !.Latency = 1500000000]
        ELSE LET r == [res EXCEPT !.StatusCode = o.status, !.Latency = 120500000]
                 val == StatusValidation(cfg, o.status)
             IN  IF val # "" THEN [r EXCEPT !.Up = FALSE, !.Validation = val]
                 ELSE KeywordValidation(r, cfg, o)

\* worker goroutines
Workers == {1}

IdleWk == [pc |-> "idle", res |-> <<>>, cfg |-> <<>>, o |-> <<>>]

StartWorkersAsGiven(n) == [w \in 1..n |-> IdleWk]

\* StartWorkers: the goroutines it starts, one per i in 0..workerCount-1 after
\* `if workerCount <= 0 { workerCount = 1 }`
StartWorkers(n) ==
    LET count == IF n <= 0 THEN 1 ELSE n
    IN  [w \in 1..count |-> IdleWk]

\* what has happened so far: results produced by CheckOnce and results sent by
\* the workers, Events constructed, Events received, snapshots published,
\* enqueue attempts and timer expiries per target, the number of publications,
\* the Events constructed (each with the number of publications before it), the
\* Events received (each with the number of publications before its receipt),
\* and the Events whose store operation was performed, in order; per target the
\* down results processed and the result processed last, and the targets whose
\* State was loaded from the store
NoHist ==
    [produced |-> 0, sent |-> 0, made |-> 0, recvd |-> 0, pubs |-> {},
     tries |-> [t \in Targets |-> 0], fires |-> [t \in Targets |-> 0],
     npub |-> 0, built |-> <<>>, seen |-> <<>>, stored |-> <<>>,
     downs |-> [t \in Targets |-> 0], lastRes |-> [t \in Targets |-> <<>>],
     loaded |-> {}]

\* what the network can do to a probe of cfg: a response to HEAD has no body,
\* and client.Do fails on cancellation exactly under a cancelled root context
Feasible(cfg, o) ==
    /\ o.kind = "resp" /\ ToUpper(cfg.Method) = "HEAD" => o.body = <<>>
    /\ o.kind = "do" /\ o.err = "context canceled" => cancelled
    /\ cancelled => \/ o.kind = "build"
                    \/ o.kind = "do" /\ o.err = "context canceled"

\* case job, ok := <-jobsCh, and the check (CheckOnce) of the job's target,
\* which is configured as one of cfgs and meets one of outs
WorkerRecv(w, cfgs, outs) ==
    /\ wk[w].pc = "idle"
    /\ jobsCh # <<>>
    /\ jobsCh' = Tail(jobsCh)
    /\ \E cfg \in cfgs, o \in outs :
          /\ Feasible(cfg, o)
          /\ LET job == Head(jobsCh)
                 result == [CheckOnce(job.Target, cfg, o, now)
                                EXCEPT !.Attempt = job.Attempt]
             IN  wk' = [wk EXCEPT ![w] = [pc |-> "send", res |-> <<result>>,
                                          cfg |-> <<cfg>>, o |-> <<o>>]]
    /\ hist' = [hist EXCEPT !.produced = @ + 1]
    /\ UNCHANGED <<now, cancelled, dbConfigured, botConfigured, eventsCh,
                   targetCfg, schedPc, delay, lastEnq, got, poolVars>>
    /\ UNCHANGED <<aggVars, trkVars>>

WorkerSendDropping(w) ==
    /\ wk[w].pc = "send"
    /\ resultsCh' = IF Len(resultsCh) < ResultsCap
                    THEN Append(resultsCh, wk[w].res[1]) ELSE resultsCh
    /\ wk' = [wk EXCEPT ![w] = IdleWk]
    /\ hist' = [hist EXCEPT !.sent = @ + 1]
    /\ UNCHANGED <<now, cancelled, dbConfigured, botConfigured, eventsCh, aggPc,
                   aggEvent, state, snapshot, checkResults, lastProc, procCount,
                   procLastUp, got, poolVars>>
    /\ UNCHANGED <<trkVars, schedVars>>

WorkerSendAgain(w) ==
    /\ wk[w].pc = "send"
    /\ Len(resultsCh) < ResultsCap
    /\ resultsCh' = Append(resultsCh, wk[w].res[1])
    /\ wk' = wk
    /\ hist' = [hist EXCEPT !.sent = @ + 1]
    /\ UNCHANGED <<now, cancelled, dbConfigured, botConfigured, eventsCh, aggPc,
                   aggEvent, state, snapshot, checkResults, lastProc, procCount,
                   procLastUp, got, poolVars>>
    /\ UNCHANGED <<trkVars, schedVars>>

\* case resultsCh <- result
WorkerSend(w) ==
    /\ wk[w].pc = "send"
    /\ Len(resultsCh) < ResultsCap
    /\ resultsCh' = Append(resultsCh, wk[w].res[1])
    /\ wk' = [wk EXCEPT ![w] = IdleWk]
    /\ hist' = [hist EXCEPT !.sent = @ + 1]
    /\ UNCHANGED <<now, cancelled, dbConfigured, botConfigured, eventsCh, aggPc,
                   aggEvent, state, snapshot, checkResults, lastProc, procCount,
                   procLastUp, got, poolVars>>
    /\ UNCHANGED <<trkVars, schedVars>>

WorkerSendBlocking(w) == WorkerSend(w)

\* case <-ctx.Done() of the send: the result is abandoned and the worker returns
WorkerSendCancelled(w) ==
    /\ wk[w].pc = "send"
    /\ cancelled
    /\ wk' = [wk EXCEPT ![w] = [IdleWk EXCEPT !.pc = "done"]]
    /\ UNCHANGED <<now, cancelled, dbConfigured, botConfigured, eventsCh, got, hist, poolVars>>
    /\ UNCHANGED <<aggVars, trkVars, schedVars>>

\* case <-ctx.Done() of the worker's outer select
WorkerStop(w) ==
    /\ wk[w].pc = "idle"
    /\ cancelled
    /\ wk' = [wk EXCEPT ![w] = [IdleWk EXCEPT !.pc = "done"]]
    /\ UNCHANGED <<now, cancelled, dbConfigured, botConfigured, eventsCh, got, hist, poolVars>>
    /\ UNCHANGED <<aggVars, trkVars, schedVars>>

-----------------------------------------------------------------------------
(* Readers of the snapshot, and the history of the queues *)

GetLive(current) ==
    IF state = <<>> THEN EmptySnapshot
    ELSE buildSnapshot(state, CHOOSE o \in Orders(DOMAIN state) : TRUE)

\* snapshot.Get: what current.Load() returns, the zero Snapshot before any Store
Get(current) == current

\* the /status handler reads the snapshot
ReadStatus ==
    /\ got' = Get(snapshot)
    /\ UNCHANGED <<now, cancelled, dbConfigured, botConfigured, eventsCh, wk, hist, poolVars>>
    /\ UNCHANGED <<aggVars, trkVars, schedVars>>

\* snapshot.Publish(buildSnapshot(state)) of this step: the state map the
\* iteration ends with, and the snapshot stored
Published == [states |-> state', snap |-> snapshot']

\* SchedFirst and SchedFire, with the enqueue attempt (a call of enqueueJob,
\* whatever its outcome) and the timer expiry recorded per target
SchedFirstTick(t) ==
    /\ SchedFirst(t)
    /\ hist' = [hist EXCEPT !.tries[lastEnq'.target] = @ + (lastEnq'.n - lastEnq.n)]
    /\ UNCHANGED <<wk, got, poolVars>>

SchedFireTick(t) ==
    /\ SchedFire(t)
    /\ hist' = [hist EXCEPT !.tries[lastEnq'.target] = @ + (lastEnq'.n - lastEnq.n),
                            !.fires[t] = @ + 1]
    /\ UNCHANGED <<wk, got, poolVars>>

\* The send of an Event and the publication that follows it are two steps of the
\* Aggregator, and the Incident Tracker may run between them.
\* AggRecv, with the Event it constructs and its publication recorded
AggRecvEvents ==
    /\ AggRecv
    /\ hist' = [hist EXCEPT
                   !.built = IF aggPc' = "send"
                             THEN Append(@, [ev |-> aggEvent'[1], npub |-> hist.npub])
                             ELSE @,
                   !.npub = IF aggPc' = "recv" THEN @ + 1 ELSE @]
    /\ UNCHANGED <<wk, got, poolVars>>

\* case eventsCh <- event
AggSendOnly ==
    /\ aggPc = "send"
    /\ Len(eventsCh) < EventsCap
    /\ eventsCh' = Append(eventsCh, aggEvent[1])
    /\ aggEvent' = <<>>
    /\ aggPc' = "publish"
    /\ lastProc' = [lastProc EXCEPT !.sent = TRUE]
    /\ UNCHANGED <<now, cancelled, dbConfigured, botConfigured, resultsCh, state,
                   snapshot, checkResults, procCount, procLastUp>>
    /\ UNCHANGED <<trkVars, schedVars, flowVars>>

\* snapshot.Publish(buildSnapshot(state)), after the select of the send
AggPublish ==
    /\ aggPc = "publish"
    /\ aggPc' = "recv"
    /\ lastProc' = [lastProc EXCEPT !.published = TRUE]
    /\ \E order \in Orders(DOMAIN state) : snapshot' = buildSnapshot(state, order)
    /\ hist' = [hist EXCEPT !.npub = @ + 1]
    /\ UNCHANGED <<now, cancelled, dbConfigured, botConfigured, resultsCh, eventsCh,
                   aggEvent, state, checkResults, procCount, procLastUp>>
    /\ UNCHANGED <<trkVars, schedVars, wk, got, poolVars>>

\* TrkRecv, with the Event received recorded
TrkRecvEvents(s) ==
    /\ TrkRecv(s)
    /\ hist' = [hist EXCEPT !.recvd = @ + 1,
                            !.seen = Append(@, [ev |-> Head(eventsCh),
                                                npub |-> hist.npub])]
    /\ UNCHANGED <<wk, got, poolVars>>

\* the statements of persistIncident, with the Event they were run for recorded
TrkExecFailEvents(s) ==
    /\ TrkExecFail(s)
    /\ hist' = [hist EXCEPT !.stored = Append(@, lastOp'.ev[1])]
    /\ UNCHANGED <<wk, got, poolVars>>

TrkInsertEvents(s) ==
    /\ TrkInsert(s)
    /\ hist' = [hist EXCEPT !.stored = Append(@, lastOp'.ev[1])]
    /\ UNCHANGED <<wk, got, poolVars>>

TrkCloseEvents(s) ==
    /\ TrkClose(s)
    /\ hist' = [hist EXCEPT !.stored = Append(@, lastOp'.ev[1])]
    /\ UNCHANGED <<wk, got, poolVars>>

\* the Incident Tracker takes an Event off the queue; what it does with it
\* leaves the Aggregator and the snapshot alone
TrkDrain ==
    /\ eventsCh # <<>>
    /\ eventsCh' = Tail(eventsCh)
    /\ UNCHANGED <<now, cancelled, dbConfigured, botConfigured>>
    /\ UNCHANGED <<aggVars, trkVars, schedVars, flowVars>>

\* AggRecv and AggSend, with the snapshot they publish recorded
AggRecvRead ==
    /\ AggRecv
    /\ hist' = [hist EXCEPT !.pubs = IF aggPc' = "recv" THEN @ \cup {Published}
                                     ELSE @]
    /\ UNCHANGED <<wk, got, poolVars>>

AggSendRead ==
    /\ AggSend
    /\ hist' = [hist EXCEPT !.pubs = @ \cup {Published}]
    /\ UNCHANGED <<wk, got, poolVars>>

\* AggRecv, with the Event it constructs recorded
AggRecvFlow ==
    /\ AggRecv
    /\ hist' = [hist EXCEPT !.made = IF aggPc' = "send" THEN @ + 1 ELSE @]
    /\ UNCHANGED <<wk, got, poolVars>>

\* TrkRecv, with the receipt of the Event recorded
TrkRecvFlow(s) ==
    /\ TrkRecv(s)
    /\ hist' = [hist EXCEPT !.recvd = @ + 1]
    /\ UNCHANGED <<wk, got, poolVars>>

-----------------------------------------------------------------------------
(* Initial states and specifications *)

\* a row of check_results an earlier run left
HistRow(status) ==
    [checked_at |-> 0, status |-> status,
     status_code |-> IF status = "UP" THEN 200 ELSE IF status = "DOWN" THEN 500 ELSE 0,
     latency_ms |-> 100,
     error |-> IF status = "UP" THEN NullText
               ELSE IF status = "DOWN" THEN "unexpected status: got 500 want 200"
               ELSE "timeout"]

\* what an earlier run may have left for a target: nothing, or one row
Histories == {<<>>} \cup {<<HistRow(s)>> : s \in {"UP", "DOWN", "TIMEOUT"}}

\* the targets an earlier run has checked
HistTargets == {"Alpha"}

InitAgg ==
    /\ resultsCh = <<>>
    /\ aggPc = "recv"
    /\ aggEvent = <<>>
    /\ state = <<>>
    /\ snapshot = EmptySnapshot
    /\ lastProc = NoProc
    /\ procCount = [t \in Targets |-> 0]
    /\ procLastUp = [t \in Targets |-> FALSE]

InitTrk ==
    /\ incidents = <<>>
    /\ trk = [s \in Sessions |-> IdleTrk]
    /\ notified = <<>>
    /\ lastOp = NoOp
    /\ storeOps = 0

InitFlow ==
    /\ wk = [w \in Workers |-> IdleWk]
    /\ got = EmptySnapshot
    /\ hist = NoHist
    /\ closed = {}
    /\ workerCount = 1

InitSchedOff ==
    /\ targetCfg = [t \in Targets |-> [Interval |-> 300000000, Enabled |-> FALSE]]
    /\ jobsCh = <<>>
    /\ schedPc = [t \in Targets |-> "off"]
    /\ delay = [t \in Targets |-> 0]
    /\ lastEnq = NoEnq

\* the Aggregator and the Incident Tracker of one process; bots tells whether a
\* Telegram bot may be configured
InitPipeline(bots) ==
    /\ now = 0
    /\ cancelled = FALSE
    /\ dbConfigured \in BOOLEAN
    /\ botConfigured \in bots
    /\ eventsCh = <<>>
    /\ InitAgg
    /\ checkResults \in [Targets -> Histories]
    /\ \A t \in Targets \ HistTargets : checkResults[t] = <<>>
    /\ dbConfigured \/ checkResults = [t \in Targets |-> <<>>]
    /\ InitTrk
    /\ InitSchedOff
    /\ InitFlow

Init == InitPipeline({FALSE})

\* the pipeline while the root context is live
Next ==
    \/ Produce /\ UNCHANGED flowVars
    \/ AggRecv /\ UNCHANGED flowVars
    \/ AggSend /\ UNCHANGED flowVars
    \/ \E s \in Sessions :
          \/ TrkRecv(s) /\ UNCHANGED flowVars
          \/ TrkExecFail(s) /\ UNCHANGED flowVars
          \/ TrkCheck(s) /\ UNCHANGED flowVars
          \/ TrkInsert(s) /\ UNCHANGED flowVars
          \/ TrkClose(s) /\ UNCHANGED flowVars

Spec == Init /\ [][Next]_vars

\* the pipeline with notifications and with the root context cancelled at any
\* moment
InitShutdown == InitPipeline(BOOLEAN)

NextShutdown ==
    \/ Next
    \/ AggSendCancelled /\ UNCHANGED flowVars
    \/ AggDone /\ UNCHANGED flowVars
    \/ Cancel /\ UNCHANGED flowVars
    \/ \E s \in Sessions : TrkNotify(s) /\ UNCHANGED flowVars

SpecShutdown == InitShutdown /\ [][NextShutdown]_vars

\* the incidents table under the statements of several sessions
InitStore ==
    /\ now = 0
    /\ cancelled = FALSE
    /\ dbConfigured = TRUE
    /\ botConfigured = FALSE
    /\ eventsCh = <<>>
    /\ InitAgg
    /\ checkResults = [t \in Targets |-> <<>>]
    /\ InitTrk
    /\ InitSchedOff
    /\ InitFlow

NextStore ==
    \E s \in Sessions :
        \/ StoreBegin(s) /\ UNCHANGED flowVars
        \/ TrkExecFail(s) /\ UNCHANGED flowVars
        \/ TrkCheck(s) /\ UNCHANGED flowVars
        \/ TrkInsert(s) /\ UNCHANGED flowVars
        \/ TrkClose(s) /\ UNCHANGED flowVars

SpecStore == InitStore /\ [][NextStore]_vars

\* the schedulers and the job queue
InitSched ==
    /\ now = 0
    /\ cancelled = FALSE
    /\ dbConfigured = FALSE
    /\ botConfigured = FALSE
    /\ eventsCh = <<>>
    /\ InitAgg
    /\ checkResults = [t \in Targets |-> <<>>]
    /\ InitTrk
    /\ targetCfg \in [Targets -> [Interval : Intervals, Enabled : BOOLEAN]]
    /\ jobsCh = <<>>
    /\ schedPc = [t \in Targets |-> StartPc(targetCfg[t])]
    /\ delay = [t \in Targets |-> 0]
    /\ lastEnq = NoEnq
    /\ InitFlow

NextSched ==
    \/ \E t \in Targets :
          \/ SchedFirst(t) /\ UNCHANGED flowVars
          \/ SchedFire(t) /\ UNCHANGED flowVars
          \/ SchedStop(t) /\ UNCHANGED flowVars
    \/ WorkerTake /\ UNCHANGED flowVars
    \/ Cancel /\ UNCHANGED flowVars

SpecSched == InitSched /\ [][NextSched]_vars

\* the Aggregator while the root context is live, with any store outcome
NextPublish ==
    \/ Produce /\ UNCHANGED flowVars
    \/ AggRecv /\ UNCHANGED flowVars
    \/ AggSend /\ UNCHANGED flowVars
    \/ TrkDrain

SpecPublish == Init /\ [][NextPublish]_vars

\* the Aggregator without a store, with readers of the snapshot
InitRead ==
    /\ Init
    /\ ~dbConfigured

NextRead ==
    \/ Produce /\ UNCHANGED flowVars
    \/ AggRecvRead
    \/ AggSendRead
    \/ ReadStatus
    \/ TrkDrain

SpecRead == InitRead /\ [][NextRead]_vars

\* the whole process: schedulers, workers, Aggregator and Incident Tracker,
\* without a store, its root context cancelled at any moment; RunTargets are
\* the enabled targets, the others have no scheduler goroutine
RunTargets == {"Alpha"}

InitRun ==
    /\ now = 0
    /\ cancelled = FALSE
    /\ dbConfigured = FALSE
    /\ botConfigured = FALSE
    /\ eventsCh = <<>>
    /\ InitAgg
    /\ checkResults = [t \in Targets |-> <<>>]
    /\ InitTrk
    /\ targetCfg = [t \in Targets |-> [Interval |-> 500000, Enabled |-> t \in RunTargets]]
    /\ jobsCh = <<>>
    /\ schedPc = [t \in Targets |-> StartPc(targetCfg[t])]
    /\ delay = [t \in Targets |-> 0]
    /\ lastEnq = NoEnq
    /\ InitFlow

SchedFirstRun(t) == SchedFirst(t) /\ UNCHANGED flowVars

SchedFireRun(t) == SchedFire(t) /\ UNCHANGED flowVars

SchedStopRun(t) == SchedStop(t) /\ UNCHANGED flowVars

\* the outcomes of the whole process: the site answers 200 at even instants and
\* times out at odd ones, and a probe under a cancelled context is cancelled
RunOutcomes(at) ==
    {o \in PlainOutcomes :
        \/ o.kind = "do" /\ o.err = "context canceled"
        \/ o.kind = "do" /\ o.err = "context deadline exceeded" /\ at % 2 = 1
        \/ o.kind = "resp" /\ o.status = 200 /\ at % 2 = 0}

WorkerRecvRun(w) == WorkerRecv(w, {PlainConfig}, RunOutcomes(now))

AggSendRun == AggSend /\ UNCHANGED flowVars

AggSendCancelledRun == AggSendCancelled /\ UNCHANGED flowVars

AggDoneRun == AggDone /\ UNCHANGED flowVars

CancelRun == Cancel /\ UNCHANGED flowVars

NextRun ==
    \/ \E t \in Targets : SchedFirstRun(t) \/ SchedFireRun(t) \/ SchedStopRun(t)
    \/ \E w \in Workers :
          \/ WorkerRecvRun(w)
          \/ WorkerSend(w)
          \/ WorkerSendCancelled(w)
          \/ WorkerStop(w)
    \/ AggRecvFlow
    \/ AggSendRun
    \/ AggSendCancelledRun
    \/ AggDoneRun
    \/ TrkRecvFlow(1)
    \/ CancelRun

\* the steps a goroutine takes once ctx.Done() is ready
SchedStopping(t) == SchedFirstRun(t) \/ SchedStopRun(t)

WorkerStopping(w) == WorkerSendCancelled(w) \/ WorkerStop(w)

AggStopping == AggSendCancelledRun \/ AggDoneRun

\* the Go scheduler runs every goroutine that can take a step, and a select with
\* a ready ctx.Done() case is not passed over for ever
FairRun ==
    /\ \A t \in RunTargets : WF_vars(SchedStopping(t))
    /\ \A w \in Workers : WF_vars(WorkerStopping(w))
    /\ WF_vars(AggStopping)
    /\ WF_vars(TrkRecvFlow(1))

SpecRun == InitRun /\ [][NextRun]_vars /\ FairRun

\* main before its goroutines are started, with any worker count, and a
\* consumer of the result queue that may be arbitrarily slow
WorkerCounts == -1..MaxWorkers

InitPool ==
    /\ now = 0
    /\ cancelled = FALSE
    /\ dbConfigured = FALSE
    /\ botConfigured = FALSE
    /\ eventsCh = <<>>
    /\ InitAgg
    /\ checkResults = [t \in Targets |-> <<>>]
    /\ InitTrk
    /\ targetCfg = [t \in Targets |-> [Interval |-> 500000, Enabled |-> t \in RunTargets]]
    /\ jobsCh = <<>>
    /\ schedPc = [t \in Targets |-> "off"]
    /\ delay = [t \in Targets |-> 0]
    /\ lastEnq = NoEnq
    /\ wk = <<>>
    /\ got = EmptySnapshot
    /\ hist = NoHist
    /\ closed = {}
    /\ workerCount \in WorkerCounts

\* monitor.StartWorkers(...) and monitor.StartSchedulers(...) of main
StartPool ==
    /\ wk = <<>>
    /\ \A t \in Targets : schedPc[t] = "off"
    /\ wk' = StartWorkers(workerCount)
    /\ schedPc' = [t \in Targets |-> StartPc(targetCfg[t])]
    /\ UNCHANGED <<now, cancelled, dbConfigured, botConfigured, eventsCh,
                   targetCfg, jobsCh, delay, lastEnq, got, hist, poolVars>>
    /\ UNCHANGED <<aggVars, trkVars>>

\* the Aggregator receives a result (res, ok := <-resCh)
ResultTake ==
    /\ resultsCh # <<>>
    /\ resultsCh' = Tail(resultsCh)
    /\ UNCHANGED <<now, cancelled, dbConfigured, botConfigured, eventsCh, aggPc,
                   aggEvent, state, snapshot, checkResults, lastProc, procCount,
                   procLastUp>>
    /\ UNCHANGED <<trkVars, schedVars, flowVars>>

Started == \E t \in Targets : schedPc[t] # "off"

NextPool ==
    \/ StartPool
    \/ \E t \in Targets : SchedFirstRun(t) \/ SchedFireRun(t) \/ SchedStopRun(t)
    \/ \E w \in DOMAIN wk :
          \/ WorkerRecvRun(w)
          \/ WorkerSend(w)
          \/ WorkerSendCancelled(w)
          \/ WorkerStop(w)
    \/ ResultTake
    \/ CancelRun

SpecPool == InitPool /\ [][NextPool]_vars

\* close(jobsCh) by the sending side, which sends no more
CloseJobs ==
    /\ Started
    /\ "jobsCh" \notin closed
    /\ closed' = closed \cup {"jobsCh"}
    /\ UNCHANGED <<now, cancelled, dbConfigured, botConfigured, eventsCh, wk, got,
                   hist, workerCount>>
    /\ UNCHANGED <<aggVars, trkVars, schedVars>>

\* close(resultsCh) by the owner of the workers, once they have returned
CloseResults ==
    /\ Started
    /\ "resultsCh" \notin closed
    /\ \A w \in DOMAIN wk : wk[w].pc = "done"
    /\ closed' = closed \cup {"resultsCh"}
    /\ UNCHANGED <<now, cancelled, dbConfigured, botConfigured, eventsCh, wk, got,
                   hist, workerCount>>
    /\ UNCHANGED <<aggVars, trkVars, schedVars>>

WorkerClosedError(w) ==
    /\ wk[w].pc = "idle"
    /\ jobsCh = <<>>
    /\ "jobsCh" \in closed
    /\ wk' = [wk EXCEPT ![w] = [IdleWk EXCEPT !.pc = "done"]]
    /\ resultsCh' = IF Len(resultsCh) < ResultsCap
                    THEN Append(resultsCh,
                                CheckResult("", now, 0, FALSE, 0, "job queue closed", ""))
                    ELSE resultsCh
    /\ UNCHANGED <<now, cancelled, dbConfigured, botConfigured, eventsCh, aggPc,
                   aggEvent, state, snapshot, checkResults, lastProc, procCount,
                   procLastUp, got, hist, poolVars>>
    /\ UNCHANGED <<trkVars, schedVars>>

\* case job, ok := <-jobsCh with ok false: the queue is closed and drained
WorkerClosed(w) ==
    /\ wk[w].pc = "idle"
    /\ jobsCh = <<>>
    /\ "jobsCh" \in closed
    /\ wk' = [wk EXCEPT ![w] = [IdleWk EXCEPT !.pc = "done"]]
    /\ UNCHANGED <<now, cancelled, dbConfigured, botConfigured, eventsCh, got, hist,
                   poolVars>>
    /\ UNCHANGED <<aggVars, trkVars, schedVars>>

\* case res, ok := <-resCh with ok false: the queue is closed and drained
AggClosed ==
    /\ aggPc = "recv"
    /\ resultsCh = <<>>
    /\ "resultsCh" \in closed
    /\ aggPc' = "done"
    /\ UNCHANGED <<now, cancelled, dbConfigured, botConfigured, resultsCh, eventsCh,
                   aggEvent, state, snapshot, checkResults, lastProc, procCount,
                   procLastUp>>
    /\ UNCHANGED <<trkVars, schedVars, flowVars>>

\* the scheduler of a job queue that is still open
SchedOpen(t) ==
    /\ "jobsCh" \notin closed
    /\ SchedFirstRun(t) \/ SchedFireRun(t)

\* what a worker does under a live context
WorkerLive(w) ==
    /\ w \in DOMAIN wk
    /\ WorkerRecvRun(w) \/ WorkerSend(w) \/ WorkerClosed(w)

AggLive == AggRecvFlow \/ AggSendRun \/ AggClosed

\* the process under a live context, without a store, with one or two workers,
\* its queues closed at any moment by their sending sides
InitClose ==
    /\ InitPool
    /\ workerCount \in {1, 2}

NextClose ==
    \/ StartPool
    \/ \E t \in Targets : SchedOpen(t)
    \/ CloseJobs
    \/ \E w \in 1..MaxWorkers : WorkerLive(w)
    \/ CloseResults
    \/ AggLive
    \/ TrkRecvFlow(1)

\* a step of a worker, of the Aggregator or of the Incident Tracker
GoroutineStep ==
    \/ \E w \in 1..MaxWorkers : WorkerLive(w)
    \/ AggLive
    \/ TrkRecvFlow(1)

\* the Go scheduler does not stop while some goroutine can take a step
FairClose == WF_vars(GoroutineStep)

SpecClose == InitClose /\ [][NextClose]_vars /\ FairClose

\* the schedulers of two targets of one interval, each enabled or not, and a
\* consumer of the job queue that may be arbitrarily slow
InitTick ==
    /\ InitSched
    /\ \A t \in Targets : targetCfg[t].Interval = 300000000

NextTick ==
    \/ \E t \in Targets :
          \/ SchedFirstTick(t)
          \/ SchedFireTick(t)
          \/ SchedStop(t) /\ UNCHANGED flowVars
    \/ WorkerTake /\ UNCHANGED flowVars
    \/ Cancel /\ UNCHANGED flowVars

SpecTick == InitTick /\ [][NextTick]_vars

\* the Aggregator and the Incident Tracker of one process, with or without a
\* store and a notification sink, the tracker free to run between any two
\* steps of the Aggregator
NextEvents ==
    \/ Produce /\ UNCHANGED flowVars
    \/ AggRecvEvents
    \/ AggSendOnly
    \/ AggPublish
    \/ TrkRecvEvents(1)
    \/ TrkExecFailEvents(1)
    \/ TrkCheck(1) /\ UNCHANGED flowVars
    \/ TrkInsertEvents(1)
    \/ TrkCloseEvents(1)
    \/ TrkNotify(1) /\ UNCHANGED flowVars

SpecEvents == InitShutdown /\ [][NextEvents]_vars

\* AggRecv, with the result recorded per target
AggRecvCount ==
    /\ AggRecv
    /\ LET res == Head(resultsCh)
           t == res.TargetName
       IN  hist' = [hist EXCEPT
                      !.downs[t] = IF res.Up THEN @ ELSE @ + 1,
                      !.lastRes[t] = <<res>>,
                      !.loaded = IF lastProc'.hydrated THEN @ \cup {t} ELSE @]
    /\ UNCHANGED <<wk, got, poolVars>>

\* the Aggregator while the root context is live, with any store outcome, the
\* results recorded
NextCount ==
    \/ Produce /\ UNCHANGED flowVars
    \/ AggRecvCount
    \/ AggSend /\ UNCHANGED flowVars
    \/ TrkDrain

SpecCount == Init /\ [][NextCount]_vars

\* the same with a store and no notification sink, the targets answering 200
\* or timing out
InitOrder ==
    /\ Init
    /\ dbConfigured

ProduceUpOrTimeout ==
    /\ Produce
    /\ LET res == resultsCh'[Len(resultsCh')] IN res.Up \/ res.Error = "timeout"
    /\ UNCHANGED flowVars

NextOrder ==
    \/ ProduceUpOrTimeout
    \/ AggRecvEvents
    \/ AggSendOnly
    \/ AggPublish
    \/ TrkRecvEvents(1)
    \/ TrkExecFailEvents(1)
    \/ TrkCheck(1) /\ UNCHANGED flowVars
    \/ TrkInsertEvents(1)
    \/ TrkCloseEvents(1)

SpecOrder == InitOrder /\ [][NextOrder]_vars

\* the Aggregator and the Incident Tracker with a store whose statements may
\* fail and a notification sink whose sends may fail; an earlier run left
\* Alpha up, and the targets answer 200 or time out
InitNotify ==
    /\ InitPipeline({TRUE})
    /\ dbConfigured
    /\ checkResults["Alpha"] = <<HistRow("UP")>>

TrkCheckNotify(s) == TrkCheck(s) /\ UNCHANGED flowVars

TrkSend(s) == TrkNotify(s) /\ UNCHANGED flowVars

NextNotify ==
    \/ ProduceUpOrTimeout
    \/ AggRecvEvents
    \/ AggSendOnly
    \/ AggPublish
    \/ TrkRecvEvents(1)
    \/ TrkExecFailEvents(1)
    \/ TrkCheckNotify(1)
    \/ TrkInsertEvents(1)
    \/ TrkCloseEvents(1)
    \/ TrkSend(1)

SpecNotify == InitNotify /\ [][NextNotify]_vars

\* one worker checking a target of any configuration against any outcome
InitCheck ==
    /\ now = 0
    /\ cancelled = FALSE
    /\ dbConfigured = FALSE
    /\ botConfigured = FALSE
    /\ eventsCh = <<>>
    /\ InitAgg
    /\ checkResults = [t \in Targets |-> <<>>]
    /\ InitTrk
    /\ InitSchedOff
    /\ InitFlow

\* a scheduler has queued a job for target t
JobQueued(t) ==
    /\ Len(jobsCh) < JobsCap
    /\ \A w \in Workers : wk[w].pc = "idle"
    /\ resultsCh = <<>>
    /\ hist.sent < MaxChecks
    /\ jobsCh' = Append(jobsCh, CheckJob(t, now))
    /\ UNCHANGED <<now, cancelled, dbConfigured, botConfigured, eventsCh,
                   targetCfg, schedPc, delay, lastEnq>>
    /\ UNCHANGED <<aggVars, trkVars, flowVars>>

NextCheck ==
    \/ \E t \in Targets : JobQueued(t)
    \/ \E w \in Workers :
          \/ WorkerRecv(w, CheckConfigs, Outcomes)
          \/ WorkerSend(w)

SpecCheck == InitCheck /\ [][NextCheck]_vars

-----------------------------------------------------------------------------
(* Properties of the Aggregator, under Spec *)

\* C1: every State that has received a result has LastUp => ConsecutiveFail = 0
\* and ~LastUp => ConsecutiveSuccess = 0, so exactly one of the two streaks is
\* nonzero.
C1_StreaksExclusive ==
    \A t \in DOMAIN state :
        LET st == state[t]
        IN  /\ st.LastUp => st.ConsecutiveFail = 0
            /\ ~st.LastUp => st.ConsecutiveSuccess = 0
            /\ (st.ConsecutiveSuccess # 0) = ~(st.ConsecutiveFail # 0)

\* C2: the first result the Aggregator processes for a target never puts an
\* Event on the event queue, whether it is up or down.
C2_FirstResultSendsNoEvent ==
    lastProc.n = 1 => ~lastProc.sent

\* C3: for a result after the target's first, an Event is constructed exactly
\* when its up-value differs from that of the result processed before it for the
\* target, and the Event goes from the earlier up-value to the new one.
C3_EventIffFlip ==
    lastProc.n >= 2 =>
        /\ lastProc.emitted = (lastProc.up # lastProc.prevUp)
        /\ lastProc.emitted =>
              /\ lastProc.event[1].TargetName = lastProc.target
              /\ lastProc.event[1].From = lastProc.prevUp
              /\ lastProc.event[1].To = lastProc.up

\* a second result flipped the target and its Event went onto the event queue
C3_Witness ==
    /\ lastProc.n >= 2
    /\ lastProc.emitted
    /\ lastProc.sent
    /\ lastProc.up # lastProc.prevUp

\* C10: when the very first result for a target is up, the Snapshot published
\* for it shows up, consecutiveSuccess = 1 and totalChecks = 1, and no Event is
\* sent; also with persistence and hydration on a working store.
C10_FirstUpSnapshot ==
    ( /\ lastProc.n = 1
      /\ lastProc.up
      /\ lastProc.fresh
      /\ dbConfigured => lastProc.storeOk )
    => /\ lastProc.published
       /\ ~lastProc.emitted
       /\ lastProc.target \in DOMAIN snapshot.ByName
       /\ snapshot.ByName[lastProc.target].Up
       /\ snapshot.ByName[lastProc.target].ConsecutiveSuccess = 1
       /\ snapshot.ByName[lastProc.target].TotalChecks = 1

\* the rows of check_results for t were all written by this run
NoEarlierRun(t) == \A i \in DOMAIN checkResults[t] : checkResults[t][i].checked_at > 0

\* C11: when a target's first result is up and its second is a timeout (down,
\* Error "timeout", status code 0), the Snapshot after the second result shows
\* up = false, consecutiveFail = 1, totalFails = 1, totalChecks = 2, and one
\* Event is sent with From = true, To = false, Reason "timeout", StatusCode 0.
C11_UpThenTimeout ==
    ( /\ lastProc.n = 2
      /\ lastProc.prevUp
      /\ ~lastProc.up
      /\ NoEarlierRun(lastProc.target)
      /\ state[lastProc.target].LastStatusCode = 0
      /\ state[lastProc.target].LastError = "timeout"
      /\ lastProc.published )
    => /\ lastProc.sent
       /\ lastProc.event[1].From
       /\ ~lastProc.event[1].To
       /\ lastProc.event[1].Reason = "timeout"
       /\ lastProc.event[1].StatusCode = 0
       /\ ~snapshot.ByName[lastProc.target].Up
       /\ snapshot.ByName[lastProc.target].ConsecutiveFail = 1
       /\ snapshot.ByName[lastProc.target].TotalFails = 1
       /\ snapshot.ByName[lastProc.target].TotalChecks = 2

-----------------------------------------------------------------------------
(* Properties of the incidents table, under SpecStore *)

\* the down events a tracker may be handed for target t at time at
DownEvents(t, at) ==
    {[TargetName |-> t, URL |-> URLOf(t), From |-> TRUE, To |-> FALSE, At |-> at,
      Reason |-> d[2], StatusCode |-> d[1]] : d \in {<<0, "timeout">>, <<500, "">>}}

\* C4: in every reachable state of the store there is at most one incident with
\* ended_at NULL per (target, probe), also when the statements of two down
\* events for one target interleave their existence check and their insert.
C4_OneOpenIncident ==
    \A t \in Targets : Cardinality(OpenFor(incidents, t, Probe)) <= 1

\* two down statements for one target raced: the later insert met the index
C4_Witness ==
    /\ lastOp.kind = "conflict"
    /\ ~lastOp.sawOpen
    /\ lastOp.openBefore
    /\ Cardinality(OpenFor(incidents, lastOp.ev[1].TargetName, Probe)) = 1

\* C5: an up event handled for a (target, probe) with no open incident leaves
\* the incident rows and all their fields unchanged.
C5_UpWithoutOpenIsNoOp ==
    ( /\ lastOp.kind \in {"closed", "failed"}
      /\ lastOp.ev[1].To
      /\ ~lastOp.openBefore )
    => lastOp.after = lastOp.before

\* the up statement ran over a table holding only closed incidents of its target
C5_Witness ==
    /\ lastOp.kind = "closed"
    /\ lastOp.ev[1].To
    /\ ~lastOp.openBefore
    /\ \E i \in DOMAIN lastOp.before :
          lastOp.before[i].target_name = lastOp.ev[1].TargetName
    /\ incidents = lastOp.before

\* C6: a down event handled for a (target, probe) that already has an open
\* incident creates no row and leaves the open incident as it was; handling the
\* same down event twice leaves the table as handling it once does.
C6_DownWithOpenIsNoOp ==
    /\ ( /\ lastOp.kind \in {"skipped", "inserted", "conflict", "failed"}
         /\ ~lastOp.ev[1].To
         /\ lastOp.openBefore )
       => lastOp.after = lastOp.before
    /\ \A t \in Targets : \A ev \in DownEvents(t, now) :
          LET once == persistIncident(incidents, ev, now)
          IN  /\ persistIncident(once, ev, now) = once
              /\ OpenFor(incidents, t, Probe) # {} => once = incidents

\* the statement of a down event found the incident of an earlier one open
C6_Witness ==
    /\ lastOp.kind = "skipped"
    /\ ~lastOp.ev[1].To
    /\ lastOp.openBefore
    /\ lastOp.sawOpen
    /\ Len(lastOp.after) = 1

\* C7: per (target, probe) the table moves between no open incident and one
\* open incident: a down statement that executes with no incident open adds
\* exactly one open incident whose started_at is the event's time, and an up
\* statement that executes with an incident open sets its ended_at to the
\* event's time and its end_status to "UP", leaving none open for the key.
C7_TwoStateMachine ==
    LET ev == lastOp.ev[1]
        b == lastOp.before
        a == lastOp.after
    IN  /\ ( /\ lastOp.kind \in {"skipped", "inserted", "conflict"}
             /\ ~ev.To
             /\ ~lastOp.sawOpen
             /\ ~lastOp.openBefore )
           => /\ lastOp.kind = "inserted"
              /\ Len(a) = Len(b) + 1
              /\ \A i \in DOMAIN b : a[i] = b[i]
              /\ a[Len(a)].target_name = ev.TargetName
              /\ a[Len(a)].probe = Probe
              /\ a[Len(a)].started_at = ev.At
              /\ a[Len(a)].ended_at = NullInt
              /\ OpenFor(a, ev.TargetName, Probe) = {Len(a)}
        /\ ( /\ lastOp.kind = "closed"
             /\ ev.To
             /\ lastOp.openBefore )
           => /\ Len(a) = Len(b)
              /\ OpenFor(a, ev.TargetName, Probe) = {}
              /\ \A i \in DOMAIN b :
                    IF i \in OpenFor(b, ev.TargetName, Probe)
                    THEN /\ a[i].ended_at = ev.At
                         /\ a[i].end_status = "UP"
                         /\ a[i].started_at = b[i].started_at
                         /\ a[i].start_status = b[i].start_status
                    ELSE a[i] = b[i]

\* an incident was opened by a down event and closed by the up event after it
C7_Witness ==
    /\ lastOp.kind = "closed"
    /\ lastOp.openBefore
    /\ \E i \in DOMAIN incidents :
          /\ incidents[i].target_name = lastOp.ev[1].TargetName
          /\ incidents[i].start_status = "DOWN"
          /\ incidents[i].end_status = "UP"
          /\ incidents[i].ended_at = lastOp.ev[1].At
          /\ incidents[i].started_at < incidents[i].ended_at

\* C12: a down event whose reason is "timeout" (status code 0), handled for a
\* target with no open incident, opens an incident with start_status "TIMEOUT".
C12_TimeoutStartStatus ==
    ( /\ lastOp.kind = "inserted"
      /\ ~lastOp.ev[1].To
      /\ lastOp.ev[1].Reason = "timeout"
      /\ lastOp.ev[1].StatusCode = 0
      /\ ~lastOp.openBefore )
    => lastOp.after[Len(lastOp.after)].start_status = "TIMEOUT"

-----------------------------------------------------------------------------
(* Properties of the schedulers, under SpecSched *)

\* C8, as the specification states it: every delay jitteredInterval returns
\* for an interval I > 0 lies between max(1ms, 0.8*I) and 1.2*I.
C8_DelayWithinJitter ==
    \A t \in Targets :
        schedPc[t] \in {"wait", "done"} =>
            /\ delay[t] >= Millisecond
            /\ 5 * delay[t] >= 4 * targetCfg[t].Interval
            /\ 5 * delay[t] <= 6 * targetCfg[t].Interval

\* C8, as the code has it: every delay jitteredInterval returns for an interval
\* I > 0 lies between max(1ms, 0.8*I) and max(1ms, 1.2*I); the floor of one
\* millisecond lifts the delay above 1.2*I when I is short.
C8_DelayWithinJitterOrFloor ==
    \A t \in Targets :
        schedPc[t] \in {"wait", "done"} =>
            /\ delay[t] >= Millisecond
            /\ 5 * delay[t] >= 4 * targetCfg[t].Interval
            /\ 5 * delay[t] <= 6 * targetCfg[t].Interval \/ delay[t] = Millisecond

\* a target with an interval under a millisecond waits the floor, and another
\* waits a jittered delay above the floor
C8_Witness ==
    \E t, u \in Targets :
        /\ schedPc[t] = "wait"
        /\ targetCfg[t].Interval < Millisecond
        /\ delay[t] = Millisecond
        /\ schedPc[u] = "wait"
        /\ delay[u] > Millisecond
        /\ delay[u] # targetCfg[u].Interval

\* C9: enqueueJob never blocks; on a job queue at capacity the job is not
\* queued, the queue keeps its contents, the job is not tried again and the
\* scheduler goes on to its next timer wait; the job queue never holds more
\* jobs than its capacity.
C9_EnqueueNeverBlocks ==
    /\ Len(jobsCh) <= JobsCap
    /\ \A t \in Targets : \A done \in BOOLEAN :
          enqueueJob(jobsCh, CheckJob(t, now), done) # {}
    /\ ( lastEnq.n > 0 /\ lastEnq.full ) =>
          /\ lastEnq.after = lastEnq.before
          /\ lastEnq.outcome \in {"dropped", "cancelled"}
          /\ schedPc[lastEnq.target] \in {"wait", "done"}
    /\ ( lastEnq.n > 0 /\ ~lastEnq.full ) =>
          lastEnq.outcome \in {"sent", "cancelled"}

\* a scheduler met a full job queue and dropped its job
C9_Witness ==
    /\ lastEnq.outcome = "dropped"
    /\ lastEnq.full
    /\ Len(jobsCh) = JobsCap
    /\ schedPc[lastEnq.target] = "wait"

\* C21: no job of a target with Enabled = false is ever placed on the job queue,
\* and every job on the job queue has Attempt = 1.
C21_OnlyEnabledFirstAttempts ==
    /\ \A i \in DOMAIN jobsCh :
          /\ targetCfg[jobsCh[i].Target].Enabled
          /\ jobsCh[i].Attempt = 1
    /\ lastEnq.n > 0 => targetCfg[lastEnq.target].Enabled

\* the enabled target has had a job queued after a timer expiry while the
\* other target is disabled
C21_Witness ==
    /\ targetCfg["Alpha"].Enabled
    /\ ~targetCfg["Beta"].Enabled
    /\ lastEnq.n >= 2
    /\ lastEnq.outcome = "sent"
    /\ jobsCh # <<>>
    /\ jobsCh[1].Target = "Alpha"
    /\ jobsCh[1].Attempt = 1

\* C22: the scheduler of every enabled target makes one enqueue attempt before
\* its first timer wait and then one enqueue attempt after each timer expiry,
\* whatever becomes of the other targets' jobs and however slowly the job
\* queue is consumed; while the context is live a waiting scheduler can always
\* take its next expiry. (Under SpecTick.)
C22_OneAttemptPerExpiry ==
    \A t \in Targets :
        /\ schedPc[t] = "off" => hist.tries[t] = 0 /\ hist.fires[t] = 0
        /\ schedPc[t] = "first" => hist.tries[t] = 0 /\ hist.fires[t] = 0
        /\ schedPc[t] \in {"wait", "done"} => hist.tries[t] = 1 + hist.fires[t]
        /\ (targetCfg[t].Enabled /\ ~cancelled) => schedPc[t] \in {"first", "wait"}
        /\ (schedPc[t] = "first") => ENABLED SchedFirstTick(t)
        /\ (schedPc[t] = "wait" /\ now < MaxTicks) => ENABLED SchedFireTick(t)

\* both targets have made an attempt after an expiry, Beta's job was dropped on
\* the full queue, and Alpha is waiting for its next expiry
C22_Witness ==
    /\ ~cancelled
    /\ hist.fires["Alpha"] >= 1
    /\ hist.tries["Alpha"] = 1 + hist.fires["Alpha"]
    /\ hist.fires["Beta"] >= 1
    /\ lastEnq.target = "Beta"
    /\ lastEnq.outcome = "dropped"
    /\ Len(jobsCh) = JobsCap
    /\ schedPc["Alpha"] = "wait"

-----------------------------------------------------------------------------
(* Properties of CheckOnce, under SpecCheck *)

\* the status code matches the policy: equal to ExpectedStatus when that is not
\* 0, otherwise in [200, 400)
StatusMatches(cfg, o) ==
    IF cfg.ExpectedStatus # 0 THEN o.status = cfg.ExpectedStatus
    ELSE o.status >= 200 /\ o.status < 400

\* C13, as the specification states it: Up is true exactly when there is no
\* transport error, the status code matches the policy, and either no substring
\* is configured or the substring occurs in the first MaxBodyBytes of the body.
C13_UpIffAllPass ==
    \A w \in Workers :
        wk[w].pc = "send" =>
            LET cfg == wk[w].cfg[1]
                o == wk[w].o[1]
            IN  wk[w].res[1].Up =
                    ( /\ o.kind = "resp"
                      /\ StatusMatches(cfg, o)
                      /\ \/ cfg.Contains = <<>>
                         \/ /\ ~o.readErr
                            /\ StringsContains(LimitRead(o.body, cfg.MaxBodyBytes),
                                               cfg.Contains) )

\* C13, as the code has it: the substring is Contains with its surrounding
\* white space removed, none is configured when that is empty, and the body is
\* read up to MaxBodyBytes, or up to 64 KiB when MaxBodyBytes is not positive.
C13_UpIffAllPassTrimmed ==
    \A w \in Workers :
        wk[w].pc = "send" =>
            LET cfg == wk[w].cfg[1]
                o == wk[w].o[1]
                limit == IF cfg.MaxBodyBytes > 0 THEN cfg.MaxBodyBytes
                         ELSE DefaultMaxBodyBytes
            IN  wk[w].res[1].Up =
                    ( /\ o.kind = "resp"
                      /\ StatusMatches(cfg, o)
                      /\ \/ TrimSpace(cfg.Contains) = <<>>
                         \/ /\ ~o.readErr
                            /\ StringsContains(LimitRead(o.body, limit),
                                               TrimSpace(cfg.Contains)) )

\* a check passed on a 3xx status with no expected status, its padded keyword
\* found beyond an unset body limit
C13_Witness ==
    \E w \in Workers :
        /\ wk[w].pc = "send"
        /\ wk[w].res[1].Up
        /\ wk[w].cfg[1].ExpectedStatus = 0
        /\ wk[w].o[1].status = 399
        /\ wk[w].cfg[1].Contains = <<" ", "O", "K">>
        /\ wk[w].cfg[1].MaxBodyBytes = 0
        /\ wk[w].o[1].body = <<"x", "O", "K">>

\* C14: a CheckResult of CheckOnce has at most one of Error and Validation
\* non-empty: Up implies both are empty, a transport or body-read failure sets
\* only Error, and a status mismatch, a missing keyword or HEAD with a substring
\* sets only Validation, with Up false.
C14_ErrorXorValidation ==
    \A w \in Workers :
        wk[w].pc = "send" =>
            LET cfg == wk[w].cfg[1]
                o == wk[w].o[1]
                r == wk[w].res[1]
                keyword == TrimSpace(cfg.Contains) # <<>>
                bodyRead == /\ o.kind = "resp"
                            /\ StatusMatches(cfg, o)
                            /\ keyword
                            /\ ToUpper(cfg.Method) # "HEAD"
            IN  /\ r.Error = "" \/ r.Validation = ""
                /\ r.Up => r.Error = "" /\ r.Validation = ""
                /\ (o.kind # "resp" \/ (bodyRead /\ o.readErr)) =>
                      ~r.Up /\ r.Error # "" /\ r.Validation = ""
                /\ ( /\ o.kind = "resp"
                     /\ \/ ~StatusMatches(cfg, o)
                        \/ keyword /\ ToUpper(cfg.Method) = "HEAD"
                        \/ bodyRead /\ ~o.readErr /\ ~r.Up ) =>
                      ~r.Up /\ r.Error = "" /\ r.Validation # ""

\* a check failed on reading the body, and its result carries only Error
C14_Witness ==
    \E w \in Workers :
        /\ wk[w].pc = "send"
        /\ wk[w].o[1].kind = "resp"
        /\ wk[w].o[1].readErr
        /\ wk[w].res[1].Error = "read body: unexpected EOF"
        /\ wk[w].res[1].Validation = ""
        /\ wk[w].res[1].StatusCode = 200

-----------------------------------------------------------------------------
(* Properties of the snapshot, under SpecRead and SpecPublish *)

\* C15: every value a reader gets from snapshot.Get() while the Aggregator runs
\* is the empty snapshot or exactly the projection of the whole state map as it
\* was at the end of one completed iteration, never a mix of two iterations or
\* of an iteration in progress.
C15_ReadersSeeWholeSnapshots ==
    \/ got = EmptySnapshot
    \/ \E p \in hist.pubs :
          /\ got = p.snap
          /\ \E order \in Orders(DOMAIN p.states) :
                got = buildSnapshot(p.states, order)

\* a reader holds the snapshot of an earlier iteration while the Aggregator is
\* in the middle of a later one, its state map already updated
C15_Witness ==
    /\ got # EmptySnapshot
    /\ aggPc = "send"
    /\ lastProc.n = 2
    /\ got.ByName[lastProc.target].TotalChecks < state[lastProc.target].TotalChecks

\* the results of target t whose iteration of the Aggregator loop is complete
Completed(t) ==
    IF aggPc = "send" /\ lastProc.target = t THEN procCount[t] - 1 ELSE procCount[t]

SnapshotNames(snap) == {snap.All[i].Name : i \in DOMAIN snap.All}

\* C16: in every published Snapshot a target appears if and only if the
\* Aggregator has processed at least one result for it, whatever an earlier run
\* left in the store for the other targets.
C16_SnapshotHoldsProcessedTargets ==
    /\ DOMAIN snapshot.ByName = {t \in Targets : Completed(t) >= 1}
    /\ SnapshotNames(snapshot) = {t \in Targets : Completed(t) >= 1}

\* Beta has been processed and is published; Alpha, which has rows of an earlier
\* run in the store but no result in this one, is absent
C16_Witness ==
    /\ aggPc = "recv"
    /\ procCount["Beta"] >= 1
    /\ procCount["Alpha"] = 0
    /\ checkResults["Alpha"] # <<>>
    /\ DOMAIN snapshot.ByName = {"Beta"}

\* C17: when the Aggregator is ready to receive the next result, the State of
\* the last result's target has been updated from that result and a Snapshot
\* reflecting it has been published, whether the store calls of the iteration
\* succeeded or failed; a store failure never stops the loop.
C17_PublishedBeforeNextResult ==
    /\ aggPc \in {"recv", "send"}
    /\ (aggPc = "recv" /\ lastProc.n > 0) =>
          LET t == lastProc.target
          IN  /\ lastProc.published
              /\ t \in DOMAIN state
              /\ state[t].LastUp = lastProc.up
              /\ state[t].TotalChecks >= lastProc.n
              /\ t \in DOMAIN snapshot.ByName
              /\ snapshot.ByName[t] = StateDTO(state[t])
              /\ \E order \in Orders(DOMAIN state) :
                    snapshot = buildSnapshot(state, order)

\* the second result of a target was processed and published although a store
\* call of its iteration failed
C17_Witness ==
    /\ aggPc = "recv"
    /\ dbConfigured
    /\ lastProc.n = 2
    /\ ~lastProc.storeOk
    /\ lastProc.published
    /\ snapshot.ByName[lastProc.target].Up = lastProc.up
    /\ resultsCh = <<>>

-----------------------------------------------------------------------------
(* Properties of shutdown and of the queues, under SpecRun *)

\* every scheduler goroutine, every worker goroutine and the Aggregator loop
\* have returned
AllStopped ==
    /\ \A t \in Targets : schedPc[t] \in {"off", "done"}
    /\ \A w \in Workers : wk[w].pc = "done"
    /\ aggPc = "done"

\* C18: after the root context is cancelled, every scheduler goroutine, every
\* worker goroutine and the Aggregator loop eventually terminate, under fair
\* scheduling, also from a timer wait and from a send to a full queue.
C18_CancelStopsPipeline == cancelled ~> AllStopped

\* all have returned although the result queue and the event queue are still full
C18_Witness ==
    /\ cancelled
    /\ AllStopped
    /\ Len(resultsCh) = ResultsCap
    /\ Len(eventsCh) = EventsCap

\* C19: after the root context is cancelled, the Incident Tracker loop
\* eventually stops, and does not stay blocked for ever on the event queue.
C19_CancelStopsTracker == cancelled ~> trk[1].pc = "done"

Sum(f) == f["Alpha"] + f["Beta"]

Holding == Cardinality({w \in Workers : wk[w].pc = "send"})

\* C20: while the root context is not cancelled no result and no Event is
\* dropped: every result a worker produced is held by the worker blocked on the
\* full result queue, is in the result queue, or has been processed by the
\* Aggregator; every Event constructed is held by the Aggregator blocked on the
\* full event queue, is in the event queue, or has been received by the tracker.
C20_NothingDroppedWhileLive ==
    ~cancelled =>
        /\ hist.produced = Holding + Len(resultsCh) + Sum(procCount)
        /\ hist.made = Len(aggEvent) + Len(eventsCh) + hist.recvd

\* under a live context a worker is blocked on the full result queue, holding
\* its result, while an Event waits in the full event queue
C20_Witness ==
    /\ ~cancelled
    /\ Holding = 1
    /\ Len(resultsCh) = ResultsCap
    /\ Len(eventsCh) = EventsCap
    /\ hist.made >= 1
    /\ hist.produced = 4

-----------------------------------------------------------------------------
(* Properties of the event queue and the Incident Tracker, under SpecOrder and
   SpecEvents *)

Events(q) == [i \in DOMAIN q |-> q[i].ev]

\* s is an initial segment of q
IsPrefix(s, q) == Len(s) <= Len(q) /\ SubSeq(q, 1, Len(s)) = s

C24_SnapshotBeforeEvent ==
    \A i \in DOMAIN hist.seen : hist.seen[i].npub > hist.built[i].npub

\* C25: when a notification sink is configured, the Incident Tracker dispatches
\* exactly one notification for every Event it receives, with or without a
\* store: once the tracker is back at its receive, the notifications number
\* the Events received.
C25_OneNotificationPerEvent ==
    (botConfigured /\ trk[1].pc = "idle") => Len(notified) = hist.recvd

-----------------------------------------------------------------------------
(* Properties of the counters and last-result fields of State, under SpecCount *)

\* C26: a State that was created empty, not loaded from the store, counts the
\* results processed for its target in TotalChecks and the down results among
\* them in TotalFails, so that 0 <= TotalFails <= TotalChecks.
C26_CountersCountResults ==
    \A t \in DOMAIN state :
        t \notin hist.loaded =>
            /\ state[t].TotalChecks = procCount[t]
            /\ state[t].TotalFails = hist.downs[t]
            /\ 0 <= state[t].TotalFails
            /\ state[t].TotalFails <= state[t].TotalChecks

C26_Witness ==
    /\ "Alpha" \in DOMAIN state
    /\ "Alpha" \notin hist.loaded
    /\ dbConfigured
    /\ procCount["Alpha"] = 2
    /\ hist.downs["Alpha"] = 1
    /\ state["Alpha"].LastUp
    /\ state["Alpha"].TotalChecks = 2
    /\ state["Alpha"].TotalFails = 1

\* C27: after a result is processed the State of its target shows that
\* result's up-value, latency and status code; its LastError is empty after an
\* up result, the transport error after a transport failure, and the validation
\* text after a validation failure.
C27_LastFieldsFollowResult ==
    \A t \in DOMAIN state :
        hist.lastRes[t] # <<>> =>
            LET res == hist.lastRes[t][1]
            IN  /\ state[t].LastUp = res.Up
                /\ state[t].LastLatency = res.Latency
                /\ state[t].LastStatusCode = res.StatusCode
                /\ res.Up => state[t].LastError = ""
                /\ (~res.Up /\ res.Error # "") => state[t].LastError = res.Error
                /\ (~res.Up /\ res.Validation # "") =>
                       state[t].LastError = res.Validation

-----------------------------------------------------------------------------
(* Properties of the worker pool, under SpecPool *)

InFlight == {w \in DOMAIN wk : wk[w].pc = "send"}

\* C28: StartWorkers starts workerCount workers, one when workerCount <= 0; a
\* worker has at most one check in hand, so at most that many checks are in
\* flight; no worker returns, and none is added, while the context is live.
C28_FixedPool ==
    Started =>
        LET N == IF workerCount >= 1 THEN workerCount ELSE 1
        IN  /\ DOMAIN wk = 1..N
            /\ \A w \in DOMAIN wk :
                  /\ Len(wk[w].res) <= 1
                  /\ Len(wk[w].res) = 1 <=> w \in InFlight
            /\ Cardinality(InFlight) <= N
            /\ ~cancelled =>
                  /\ \A w \in DOMAIN wk : wk[w].pc \in {"idle", "send"}
                  /\ hist.produced - hist.sent = Cardinality(InFlight)

C28_Witness ==
    /\ workerCount = 2
    /\ ~cancelled
    /\ DOMAIN wk = {1, 2}
    /\ InFlight = {1, 2}
    /\ hist.sent >= 1

\* a worker takes a job: the result in its hand is the job's
TakesJob(w) ==
    /\ wk[w].pc = "idle"
    /\ wk'[w].pc = "send"

\* a worker lets go of the result in its hand
LetsGo(w) ==
    /\ wk[w].pc = "send"
    /\ wk'[w].pc # "send"

\* C29: the result a worker holds after taking a job carries the job's target
\* name, URL and Attempt; the result queue grows only by the result in a
\* worker's hand, which the worker then no longer holds; a worker drops a
\* result without delivering it only under a cancelled context; so the
\* results delivered never exceed the jobs taken, and equal them, less the
\* checks in hand, while the context is live.
C29_OneResultPerJob ==
    /\ [](hist.sent <= hist.produced)
    /\ [](~cancelled => hist.produced = hist.sent + Cardinality(InFlight))
    /\ [][ /\ \A w \in DOMAIN wk :
               /\ TakesJob(w) =>
                     /\ jobsCh # <<>>
                     /\ jobsCh' = Tail(jobsCh)
                     /\ wk'[w].res[1].TargetName = Head(jobsCh).Target
                     /\ wk'[w].res[1].URL = URLOf(Head(jobsCh).Target)
                     /\ wk'[w].res[1].Attempt = Head(jobsCh).Attempt
               /\ LetsGo(w) =>
                     \/ resultsCh' = Append(resultsCh, wk[w].res[1])
                     \/ cancelled /\ resultsCh' = resultsCh
           /\ Len(resultsCh') > Len(resultsCh) =>
                 \E w \in DOMAIN wk :
                     /\ LetsGo(w)
                     /\ resultsCh' = Append(resultsCh, wk[w].res[1])
                     /\ \A v \in DOMAIN wk \ {w} : wk'[v] = wk[v] ]_vars

C29_Witness ==
    /\ ~cancelled
    /\ workerCount = 2
    /\ hist.produced = 3
    /\ hist.sent = 2
    /\ InFlight = {2}
    /\ wk[2].res[1].TargetName = "Alpha"
    /\ Len(resultsCh) = 1

-----------------------------------------------------------------------------
(* Properties of closed queues, under SpecClose *)

AllWorkersDone == \A w \in DOMAIN wk : wk[w].pc = "done"

\* C30: once the job queue is closed every worker returns; a worker returns
\* with no check in hand and without putting anything on the result queue, and
\* every job taken has had its result delivered by then. Once the result
\* queue is closed the Aggregator returns; the step in which it returns, and
\* every step after it, publishes no snapshot and sends no Event.
C30_ClosedQueuesStop ==
    /\ ("jobsCh" \in closed) ~> AllWorkersDone
    /\ ("resultsCh" \in closed) ~> (aggPc = "done")
    /\ [](AllWorkersDone => hist.sent = hist.produced)
    /\ [](aggPc = "done" => "resultsCh" \in closed /\ resultsCh = <<>>)
    /\ [][ /\ \A w \in DOMAIN wk :
               (wk[w].pc # "done" /\ wk'[w].pc = "done") =>
                   /\ "jobsCh" \in closed
                   /\ jobsCh = <<>>
                   /\ wk[w].pc = "idle"
                   /\ resultsCh' = resultsCh
           /\ (aggPc' = "done") =>
                   /\ snapshot' = snapshot
                   /\ Len(eventsCh') <= Len(eventsCh)
                   /\ hist'.made = hist.made ]_vars

C30_Witness ==
    /\ closed = {"jobsCh", "resultsCh"}
    /\ workerCount = 2
    /\ AllWorkersDone
    /\ aggPc = "done"
    /\ hist.sent = 3
    /\ hist.made = 2
    /\ Len(snapshot.All) = 1

-----------------------------------------------------------------------------
(* Properties of the failure reasons and the persisted status, under SpecCheck *)

\* CheckOnce reads the body: the status passed, a keyword is configured and
\* the method is not HEAD
BodyRead(cfg, o) ==
    /\ o.kind = "resp"
    /\ StatusValidation(cfg, o.status) = ""
    /\ TrimSpace(cfg.Contains) # <<>>
    /\ ToUpper(cfg.Method) # "HEAD"

\* the deadline of the job's context expired during the probe: in client.Do,
\* or in the read of the body
DeadlineExpired(cfg, o) ==
    /\ o.err = "context deadline exceeded"
    /\ o.kind = "do" \/ BodyRead(cfg, o)

\* C31: the result of a probe whose deadline expired has Error "timeout" and
\* StatusCode 0, that of a cancelled probe has Error "canceled"; the status
\* persisted for a result is UP, DOWN or TIMEOUT: UP exactly when the result
\* is up, TIMEOUT exactly when it is down with the error "timeout".
C31_TimeoutReasonAndStatus ==
    \A w \in Workers :
        wk[w].pc = "send" =>
            LET cfg == wk[w].cfg[1]
                o == wk[w].o[1]
                r == wk[w].res[1]
                status == CheckRow(r, now).status
            IN  /\ DeadlineExpired(cfg, o) => r.Error = "timeout" /\ r.StatusCode = 0
                /\ (o.kind = "do" /\ o.err = "context canceled") => r.Error = "canceled"
                /\ status \in {"UP", "DOWN", "TIMEOUT"}
                /\ status = "UP" <=> r.Up
                /\ status = "TIMEOUT" <=> (~r.Up /\ r.Error = "timeout")

-----------------------------------------------------------------------------
(* Properties of the Incident Tracker under failing calls, under SpecNotify *)

\* the Events the tracker has in hand: received, its store call not yet made
InStore == IF trk[1].pc \in {"persist", "insert"} THEN 1 ELSE 0

\* received, its notification not yet sent
InHand == IF trk[1].pc = "idle" THEN 0 ELSE 1

\* C32: the Incident Tracker is never stopped: idle, it receives the next
\* Event queued; with an Event in hand its next call can be made, whatever
\* the earlier calls returned. Every Event received gets one store call and
\* one notification, failed or not: none is repeated and none is skipped.
C32_FailuresDoNotStopTracker ==
    /\ trk[1].pc \in {"idle", "persist", "insert", "notify"}
    /\ (trk[1].pc = "idle" /\ eventsCh # <<>>) => ENABLED TrkRecvEvents(1)
    /\ trk[1].pc = "persist" =>
          /\ ENABLED TrkExecFailEvents(1)
          /\ ENABLED (TrkCheckNotify(1) \/ TrkCloseEvents(1))
    /\ trk[1].pc = "insert" => ENABLED TrkInsertEvents(1)
    /\ trk[1].pc = "notify" => ENABLED TrkSend(1)
    /\ Len(hist.stored) = Len(hist.seen) - InStore
    /\ hist.stored = SubSeq(Events(hist.seen), 1, Len(hist.stored))
    /\ Len(notified) = Len(hist.seen) - InHand

\* the store call for the first Event, a down-transition, failed and so did its
\* notification; the second Event was stored and notified all the same
C32_Witness ==
    /\ Len(hist.seen) = 2
    /\ Len(hist.stored) = 2
    /\ ~hist.stored[1].To
    /\ hist.stored[2].To
    /\ incidents = <<>>
    /\ Len(notified) = 2
    /\ ~notified[1].ok
    /\ notified[2].ok
    /\ trk[1].pc = "idle"

-----------------------------------------------------------------------------
(* Properties of the published Snapshot and of hydration, under SpecPublish *)

\* C33: in the published Snapshot no name occurs twice in All, the keys of
\* ByName are the names in All, the entry under a name is the list entry of
\* that name, and once the Aggregator is back at its receive the names are
\* those of the targets it has processed a result for.
C33_AllAndByNameAgree ==
    /\ \A i, j \in DOMAIN snapshot.All :
          i # j => snapshot.All[i].Name # snapshot.All[j].Name
    /\ DOMAIN snapshot.ByName = {snapshot.All[i].Name : i \in DOMAIN snapshot.All}
    /\ \A i \in DOMAIN snapshot.All :
          snapshot.ByName[snapshot.All[i].Name] = snapshot.All[i]
    /\ aggPc = "recv" =>
          {snapshot.All[i].Name : i \in DOMAIN snapshot.All}
              = {t \in Targets : procCount[t] > 0}

C33_Witness ==
    /\ aggPc = "recv"
    /\ Len(snapshot.All) = 2
    /\ snapshot.All[1].Name = "Beta"
    /\ snapshot.All[2].Name = "Alpha"
    /\ DOMAIN snapshot.ByName = {"Alpha", "Beta"}
    /\ snapshot.ByName["Alpha"].TotalChecks = 2

\* the streak a State shows: of successes when up, of failures when down
Streak(st) == IF st.LastUp THEN st.ConsecutiveSuccess ELSE st.ConsecutiveFail

\* the length of the run of rows of one status that ends the history
TrailingRun(rows) == StreakFrom(Newest(rows), 1, rows[Len(rows)].status)

\* C34: with the store working, after the first result of a target is
\* processed its State has TotalChecks equal to the number of rows the store
\* holds for the target, the current result included, and a streak equal to
\* the trailing run of rows of one status; with no earlier history that is
\* TotalChecks 1 and a streak of 1.
C34_HydrationCountsOnce ==
    ( /\ dbConfigured
      /\ lastProc.n = 1
      /\ lastProc.storeOk )
    => LET t == lastProc.target
       IN  /\ state[t].TotalChecks = Len(checkResults[t])
           /\ Streak(state[t]) = TrailingRun(checkResults[t])
           /\ lastProc.fresh => state[t].TotalChecks = 1 /\ Streak(state[t]) = 1

-----------------------------------------------------------------------------
(* Properties of the Events of one target, under SpecOrder *)

\* the Events constructed for target t, in order
EventsOf(t) ==
    LET idx == {i \in DOMAIN hist.built : hist.built[i].ev.TargetName = t}
        nth[k \in 0..Cardinality(idx)] ==
            IF k = 0 THEN 0
            ELSE CHOOSE i \in idx : i > nth[k - 1] /\ \A j \in idx : j > nth[k - 1] => i <= j
    IN  [k \in 1..Cardinality(idx) |-> hist.built[nth[k]].ev]

\* C35: the Events constructed for a target alternate: each has From # To and
\* a From equal to the To of the target's previous Event; the From of the
\* target's first Event is the up-value of the target's first observation,
\* which for an Event constructed on the first result is that result's own.
C35_EventsAlternate ==
    /\ \A t \in Targets :
          LET evs == EventsOf(t)
          IN  /\ \A k \in DOMAIN evs : evs[k].From # evs[k].To
              /\ \A k \in DOMAIN evs : k > 1 => evs[k].From = evs[k - 1].To
    /\ (aggPc = "send" /\ Len(EventsOf(lastProc.target)) = 1) =>
          aggEvent[1].From = IF lastProc.n = 1 THEN lastProc.up ELSE lastProc.prevUp

-----------------------------------------------------------------------------
(* Properties of the order of one target's results, under SpecPool *)

\* the workers holding the result of a check of target t
InFlightFor(t) == {w \in InFlight : wk[w].res[1].TargetName = t}

\* C36: at most one check per target is in flight, and no result of a target
\* is on the result queue, which the Aggregator receives in order, while a
\* worker still holds the result of an earlier check of that target.
C36_PerTargetOrder ==
    \A t \in Targets :
        /\ Cardinality(InFlightFor(t)) <= 1
        /\ \A w \in InFlightFor(t) : \A i \in DOMAIN resultsCh :
              resultsCh[i].TargetName = t => resultsCh[i].At <= wk[w].res[1].At

-----------------------------------------------------------------------------
(* Progress of the pipeline under a live context, under SpecLive *)

\* the whole process, its root context never cancelled: one or two workers
\* without a store, one worker with a store. The store calls of the Aggregator
\* return without an error, those of the Incident Tracker with or without one
InitLive ==
    /\ now = 0
    /\ cancelled = FALSE
    /\ dbConfigured \in BOOLEAN
    /\ botConfigured = FALSE
    /\ eventsCh = <<>>
    /\ InitAgg
    /\ checkResults = [t \in Targets |-> <<>>]
    /\ InitTrk
    /\ targetCfg = [t \in Targets |-> [Interval |-> 500000, Enabled |-> t \in RunTargets]]
    /\ jobsCh = <<>>
    /\ schedPc = [t \in Targets |-> "off"]
    /\ delay = [t \in Targets |-> 0]
    /\ lastEnq = NoEnq
    /\ wk = <<>>
    /\ got = EmptySnapshot
    /\ hist = NoHist
    /\ closed = {}
    /\ workerCount \in {1, 2}
    /\ dbConfigured => workerCount = 1

\* a step of a worker under a live context
WorkerStep(w) ==
    /\ w \in DOMAIN wk
    /\ WorkerRecvRun(w) \/ WorkerSend(w)

\* AggRecv, its INSERT and its queries returning without an error
AggRecvLive ==
    /\ AggRecvFlow
    /\ dbConfigured => lastProc'.storeOk

\* a step of the Aggregator under a live context
AggStep == AggRecvLive \/ AggSendRun

\* a step of the Incident Tracker: the receive, or a statement of
\* persistIncident returning
TrkStep ==
    \/ TrkRecvFlow(1)
    \/ TrkExecFail(1) /\ UNCHANGED flowVars
    \/ TrkCheck(1) /\ UNCHANGED flowVars
    \/ TrkInsert(1) /\ UNCHANGED flowVars
    \/ TrkClose(1) /\ UNCHANGED flowVars

PipelineStep ==
    \/ \E w \in 1..MaxWorkers : WorkerStep(w)
    \/ AggStep
    \/ TrkStep

NextLive ==
    \/ StartPool
    \/ \E t \in Targets : SchedFirstRun(t) \/ SchedFireRun(t)
    \/ \E w \in 1..MaxWorkers : WorkerStep(w)
    \/ AggStep
    \/ TrkStep

\* the Go scheduler does not stop while some goroutine can take a step
FairLive == WF_vars(PipelineStep)

SpecLive == InitLive /\ [][NextLive]_vars /\ FairLive

\* the jobs the job queue has accepted: those in it and those received from it
Accepted == Len(jobsCh) + hist.produced

\* the results applied to the state and published in a Snapshot
Applied == IF lastProc.n > 0 /\ ~lastProc.published
           THEN Sum(procCount) - 1 ELSE Sum(procCount)

\* the Events the Incident Tracker has handled
Handled == IF trk[1].pc = "idle" THEN hist.recvd ELSE hist.recvd - 1

\* work is in the pipeline: a job or a result queued or in hand, or an Event
\* queued or in hand
Pending ==
    \/ jobsCh # <<>>
    \/ resultsCh # <<>>
    \/ eventsCh # <<>>
    \/ InFlight # {}
    \/ aggPc # "recv"
    \/ trk[1].pc # "idle"

\* C37: under a live context and fair scheduling, with store calls that
\* return, every job accepted into the job queue is eventually executed by a
\* worker, its result is eventually applied and published in a Snapshot, and
\* every Event constructed is eventually handled by the Incident Tracker: the
\* counts of jobs accepted, executed and applied and of Events constructed and
\* handled only grow, and again and again every job accepted so far has been
\* executed and applied and every Event constructed so far has been handled.
\* While work is in the pipeline some worker, the Aggregator or the Incident
\* Tracker can take a step.
C37_PipelineProgress ==
    /\ [][ /\ Accepted' >= Accepted
           /\ hist'.produced >= hist.produced
           /\ Applied' >= Applied
           /\ hist'.made >= hist.made
           /\ Handled' >= Handled ]_vars
    /\ []<>(hist.produced = Accepted /\ Applied = Accepted)
    /\ []<>(Handled = hist.made)
    /\ [](Pending => ENABLED PipelineStep)

\* every job of the run was accepted, executed and applied, and the Events
\* constructed were all handled with a store configured
C37_Witness ==
    /\ dbConfigured
    /\ ~Pending
    /\ Accepted = MaxTicks + 1
    /\ Applied = MaxTicks + 1
    /\ hist.made >= 2
    /\ Handled = hist.made
    /\ incidents # <<>>

-----------------------------------------------------------------------------
(* Open incidents and the targets' current state, under SpecNotify *)

\* the event queue is empty and the Incident Tracker is idle under a live
\* context, and the Aggregator holds no Event it has yet to send
Quiet ==
    /\ ~cancelled
    /\ eventsCh = <<>>
    /\ aggPc # "send"
    /\ trk[1].pc = "idle"

\* the current state of t is down
CurrentDown(t) == t \in DOMAIN state /\ ~state[t].LastUp

\* the current state of t is down after t was observed up: the last Event of t
\* is the transition from up to down
WentDown(t) ==
    /\ CurrentDown(t)
    /\ EventsOf(t) # <<>>
    /\ LET last == EventsOf(t)[Len(EventsOf(t))] IN last.From /\ ~last.To

HasOpen(t) == OpenFor(incidents, t, Probe) # {}

\* C38: whenever the event queue is empty and the Incident Tracker is idle
\* under a live context, a target has an open incident only if its current
\* state is down, and every target whose current state is down after having
\* been observed up has an open incident, also when store calls of the
\* Incident Tracker fail.
C38_OpenIncidentIffDown ==
    Quiet =>
        \A t \in Targets :
            /\ HasOpen(t) => CurrentDown(t)
            /\ WentDown(t) => HasOpen(t)

-----------------------------------------------------------------------------
(* Targets as config.Load delivers them, under SpecLoad *)

\* what a target of the YAML file may say: a method (absent, valid in either
\* case, or invalid), an expected status (0 when absent), a keyword, a limit
RawMethods == {"", "GET", "head", "PUT"}

RawStatuses == {0, 99, 200, 600}

RawTargets ==
    [Method : RawMethods, ExpectedStatus : RawStatuses, Contains : Keywords,
     MaxBodyBytes : {-1, 0, 2}]

\* the target defaults of applyDefaults
applyDefaults(t) ==
    [t EXCEPT !.Method = IF @ = "" THEN "GET" ELSE @,
              !.ExpectedStatus = IF @ = 0 THEN 200 ELSE @,
              !.MaxBodyBytes = IF @ = 0 THEN DefaultMaxBodyBytes ELSE @]

\* validateAndNormalize of one target: <<>> when it returns an error
validateAndNormalize(t) ==
    LET method == ToUpper(t.Method)
    IN  IF method \notin {"GET", "HEAD"} THEN <<>>
        ELSE IF t.ExpectedStatus < 100 \/ t.ExpectedStatus > 599 THEN <<>>
        ELSE IF t.MaxBodyBytes < 0 THEN <<>>
        ELSE IF method = "HEAD" /\ TrimSpace(t.Contains) # <<>> THEN <<>>
        ELSE <<[t EXCEPT !.Method = method]>>

\* config.Load of a file with the one target t
Load(t) == validateAndNormalize(applyDefaults(t))

\* the targets main hands to the workers
LoadedConfigs == {Load(t)[1] : t \in {r \in RawTargets : Load(r) # <<>>}}

\* a worker checks a target as config.Load delivered it
WorkerRecvLoaded(w) == WorkerRecv(w, LoadedConfigs, Outcomes)

NextLoad ==
    \/ \E t \in Targets : JobQueued(t)
    \/ \E w \in Workers :
          \/ WorkerRecvLoaded(w)
          \/ WorkerSend(w)

SpecLoad == InitCheck /\ [][NextLoad]_vars

\* C39: a target whose configuration gives no expected status (0 or omitted)
\* and no keyword, loaded by config.Load and probed by CheckOnce, is up for
\* every response with a status in [200,400) whose handling meets no
\* transport error.
C39_NoExpectedStatusAny2xx3xx ==
    \A w \in Workers :
        wk[w].pc = "send" =>
            \A t \in RawTargets :
                ( /\ t.ExpectedStatus = 0
                  /\ TrimSpace(t.Contains) = <<>>
                  /\ Load(t) = wk[w].cfg
                  /\ wk[w].o[1].kind = "resp"
                  /\ ~wk[w].o[1].readErr
                  /\ wk[w].o[1].status >= 200
                  /\ wk[w].o[1].status < 400 )
                => wk[w].res[1].Up
====
